---- MODULE Spec2Model ----
(***************************************************************************)
(* gostc: the hash-keyed store (LRU and LFU), the version index and the    *)
(* request pipeline with its invalidator, as state machines.               *)
(***************************************************************************)
EXTENDS Integers, Sequences, FiniteSets, TLC

(***************************************************************************)
(* Bounds of the model.                                                    *)
(***************************************************************************)
\* byte budget handed to NewLRUCache / NewLFUCache in the store model
CacheSize == 3
\* TTL handed to the store, in clock ticks
CacheTTL == 1
\* last value of the clock
MaxTime == CacheTTL + 1
\* number of store operations in one behaviour
MaxOps == 3

\* entry count of the embedded lru.Cache
LRUCapacity == 1000

Strategies == {"LRU", "LFU"}
\* cache keys of the store model
Keys == {"k1", "k2", "k3"}
\* byte strings put into entries by the store model
DataVals == {<<1>>, <<2>>}
\* CacheEntry.Size values handed to Set: small, just under the budget, the
\* whole budget, and more than the budget
EntrySizes == {1, CacheSize - 1, CacheSize, CacheSize + 1}

NoEntry == [none |-> TRUE]

VARIABLES
    strategy,   \* which implementation NewCache returned
    cache,      \* the store: items, currentSize, stats, maxSize, ttl
    now,        \* the clock read by time.Now / time.Since
    nops,       \* number of store operations performed
    lastOp,     \* the last store operation and what it returned, with the
                \* held keys in the order of their insertion (for a Get:
                \* when it ran and whether it found an entry older than TTL)
    lastSet     \* per key k: the data and time of the last Set(k) and the
                \* number (up to 2) of Sets of k, as long as only Set(k) and
                \* Get(k) followed and the entry did not expire; else NoEntry

cacheVars == <<strategy, cache, now, nops, lastOp, lastSet>>

(***************************************************************************)
(* Helpers on sequences.                                                   *)
(***************************************************************************)
RemoveAt(s, i) == SubSeq(s, 1, i - 1) \o SubSeq(s, i + 1, Len(s))

SwapAt(s, i, j) == [s EXCEPT ![i] = s[j], ![j] = s[i]]

\* position of key k in a sequence of records with a key field, 0 if absent
PosOf(items, k) ==
    IF \E i \in 1..Len(items) : items[i].key = k
    THEN CHOOSE i \in 1..Len(items) : items[i].key = k
    ELSE 0

RECURSIVE SumSizes(_)
SumSizes(items) ==
    IF items = <<>> THEN 0
    ELSE Head(items).entry.Size + SumSizes(Tail(items))

ZeroStats == [Hits |-> 0, Misses |-> 0, Evictions |-> 0, Size |-> 0, ItemCount |-> 0]

(***************************************************************************)
(* The embedded lru.Cache: a list of (key, entry), oldest first.           *)
(***************************************************************************)
\* lru.Cache.Get: a found key becomes the most recently used
lruTouch(items, k) ==
    LET i == PosOf(items, k) IN
    IF i = 0 THEN items ELSE Append(RemoveAt(items, i), items[i])

lruRemove(items, k) ==
    LET i == PosOf(items, k) IN
    IF i = 0 THEN items ELSE RemoveAt(items, i)

lruRemoveOldest(items) == Tail(items)

\* lru.Cache.Add: replace and touch, or push and drop the oldest over capacity
lruAdd(items, k, e) ==
    LET i == PosOf(items, k) IN
    IF i # 0 THEN Append(RemoveAt(items, i), [key |-> k, entry |-> e])
    ELSE LET pushed == Append(items, [key |-> k, entry |-> e]) IN
         IF Len(pushed) > LRUCapacity THEN lruRemoveOldest(pushed) ELSE pushed

(***************************************************************************)
(* LRUCache                                                                *)
(***************************************************************************)
NewLRUCache(maxSize, ttl) ==
    [items |-> <<>>, currentSize |-> 0, stats |-> ZeroStats,
     maxSize |-> maxSize, ttl |-> ttl]

\* LRUGet without the TTL check
LRUGet_NoTTL(c, key, t) ==
    LET i == PosOf(c.items, key) IN
    IF i = 0
    THEN [cache |-> [c EXCEPT !.stats.Misses = @ + 1], entry |-> NoEntry, ok |-> FALSE]
    ELSE LET touched == lruTouch(c.items, key)
             hit == [c.items[i].entry EXCEPT !.AccessCount = @ + 1] IN
         [cache |-> [c EXCEPT !.items = [touched EXCEPT ![Len(touched)].entry = hit],
                              !.stats.Hits = @ + 1],
          entry |-> hit, ok |-> TRUE]

\* result of a lookup: the store afterwards, the entry returned and ok
LRUGet(c, key, t) ==
    LET i == PosOf(c.items, key) IN
    IF i = 0
    THEN [cache |-> [c EXCEPT !.stats.Misses = @ + 1], entry |-> NoEntry, ok |-> FALSE]
    ELSE LET entry == c.items[i].entry IN
         IF t - entry.CreatedAt > c.ttl
         THEN [cache |-> [c EXCEPT !.items = lruRemove(c.items, key),
                                   !.currentSize = @ - entry.Size,
                                   !.stats.Misses = @ + 1],
               entry |-> NoEntry, ok |-> FALSE]
         ELSE LET touched == lruTouch(c.items, key)
                  hit == [entry EXCEPT !.AccessCount = @ + 1] IN
              [cache |-> [c EXCEPT !.items = [touched EXCEPT ![Len(touched)].entry = hit],
                                   !.stats.Hits = @ + 1],
               entry |-> hit, ok |-> TRUE]

RECURSIVE LRUevictToSize(_, _)
LRUevictToSize(c, targetSize) ==
    IF c.currentSize > targetSize /\ Len(c.items) > 0
    THEN LRUevictToSize([c EXCEPT !.items = lruRemoveOldest(c.items),
                                  !.stats.Evictions = @ + 1], targetSize)
    ELSE c

LRUSet(c, key, entry, t) ==
    LET c1 == IF c.currentSize + entry.Size > c.maxSize
              THEN LRUevictToSize(c, c.maxSize - entry.Size)
              ELSE c
        i == PosOf(c1.items, key)
        c2 == IF i # 0
              THEN [c1 EXCEPT !.items = lruTouch(c1.items, key),
                              !.currentSize = @ - c1.items[i].entry.Size]
              ELSE c1
        stamped == [entry EXCEPT !.CreatedAt = t]
    IN  [c2 EXCEPT !.items = lruAdd(c2.items, key, stamped),
                   !.currentSize = @ + entry.Size]

LRUDelete(c, key) ==
    LET i == PosOf(c.items, key) IN
    IF i # 0
    THEN [c EXCEPT !.items = lruRemove(c.items, key),
                   !.currentSize = @ - c.items[i].entry.Size]
    ELSE c

LRUClear(c) == [c EXCEPT !.items = <<>>, !.currentSize = 0, !.stats = ZeroStats]

LRUStats(c) == [c.stats EXCEPT !.Size = c.currentSize, !.ItemCount = Len(c.items)]

\* one pass of the sweeper over Keys(), oldest first
RECURSIVE LRUsweep(_, _, _)
LRUsweep(c, keys, t) ==
    IF keys = <<>> THEN c
    ELSE LET i == PosOf(c.items, Head(keys))
             c1 == IF i # 0 /\ t - c.items[i].entry.CreatedAt > c.ttl
                   THEN [c EXCEPT !.items = lruRemove(c.items, Head(keys)),
                                  !.currentSize = @ - c.items[i].entry.Size]
                   ELSE c
         IN LRUsweep(c1, Tail(keys), t)

LRUcleanupExpired(c, t) ==
    LRUsweep(c, [i \in 1..Len(c.items) |-> c.items[i].key], t)

(***************************************************************************)
(* container/heap over minHeap: freqList is the heap array, position i of  *)
(* the Go slice is element i + 1 here; lfuEntry.index is that position and *)
(* the items map is the set of keys in the array.                          *)
(***************************************************************************)
minHeapLess(h, i, j) == h[i + 1].freq < h[j + 1].freq

minHeapSwap(h, i, j) == SwapAt(h, i + 1, j + 1)

RECURSIVE heapUp(_, _)
heapUp(h, j) ==
    IF j = 0 THEN h
    ELSE LET i == (j - 1) \div 2 IN
         IF i = j \/ ~minHeapLess(h, j, i) THEN h
         ELSE heapUp(minHeapSwap(h, i, j), i)

\* the array after sifting down from i within the first n elements, and
\* where the element ended
RECURSIVE heapDown(_, _, _)
heapDown(h, i, n) ==
    LET j1 == 2 * i + 1 IN
    IF j1 >= n THEN [h |-> h, i |-> i]
    ELSE LET j == IF j1 + 1 < n /\ minHeapLess(h, j1 + 1, j1) THEN j1 + 1 ELSE j1 IN
         IF ~minHeapLess(h, j, i) THEN [h |-> h, i |-> i]
         ELSE heapDown(minHeapSwap(h, i, j), j, n)

heapFix(h, i) ==
    LET d == heapDown(h, i, Len(h)) IN
    IF d.i > i THEN d.h ELSE heapUp(h, i)

heapPush(h, x) == heapUp(Append(h, x), Len(h))

\* heap.Pop: the array without its minimum, and the minimum
heapPop(h) ==
    LET n == Len(h) - 1
        d == heapDown(minHeapSwap(h, 0, n), 0, n) IN
    [h |-> SubSeq(d.h, 1, n), item |-> d.h[n + 1]]

heapRemove(h, i) ==
    LET n == Len(h) - 1 IN
    IF n # i
    THEN LET sw == minHeapSwap(h, i, n)
             d == heapDown(sw, i, n)
             fixed == IF d.i > i THEN d.h ELSE heapUp(sw, i)
         IN SubSeq(fixed, 1, n)
    ELSE SubSeq(h, 1, n)

(***************************************************************************)
(* LFUCache                                                                *)
(***************************************************************************)
NewLFUCache(maxSize, ttl) ==
    [items |-> <<>>, currentSize |-> 0, stats |-> ZeroStats,
     maxSize |-> maxSize, ttl |-> ttl]

LFUremoveItem(c, i) ==
    [c EXCEPT !.items = heapRemove(c.items, i - 1),
              !.currentSize = @ - c.items[i].entry.Size]

LFUevictLFU(c) ==
    IF Len(c.items) = 0 THEN c
    ELSE LET p == heapPop(c.items) IN
         [c EXCEPT !.items = p.h,
                   !.currentSize = @ - p.item.entry.Size,
                   !.stats.Evictions = @ + 1]

LFUGet(c, key, t) ==
    LET i == PosOf(c.items, key) IN
    IF i # 0
    THEN LET entry == c.items[i].entry IN
         IF t - entry.CreatedAt > c.ttl
         THEN [cache |-> [LFUremoveItem(c, i) EXCEPT !.stats.Misses = @ + 1],
               entry |-> NoEntry, ok |-> FALSE]
         ELSE [cache |-> [c EXCEPT !.items = heapFix([c.items EXCEPT ![i].freq = @ + 1], i - 1),
                                   !.stats.Hits = @ + 1],
               entry |-> entry, ok |-> TRUE]
    ELSE [cache |-> [c EXCEPT !.stats.Misses = @ + 1], entry |-> NoEntry, ok |-> FALSE]

RECURSIVE LFUmakeRoom(_, _)
LFUmakeRoom(c, size) ==
    IF c.currentSize + size > c.maxSize /\ Len(c.items) > 0
    THEN LFUmakeRoom(LFUevictLFU(c), size)
    ELSE c

\* LFUSet that keeps the old entry of a key already present
LFUSet_KeepOld(c, key, entry, t) ==
    LET stamped == [entry EXCEPT !.CreatedAt = t]
        i == PosOf(c.items, key) IN
    IF i # 0
    THEN [c EXCEPT !.items = heapFix([c.items EXCEPT ![i].freq = @ + 1], i - 1)]
    ELSE LET c1 == LFUmakeRoom(c, entry.Size) IN
         [c1 EXCEPT !.items = heapPush(c1.items, [key |-> key, entry |-> stamped, freq |-> 1]),
                    !.currentSize = @ + entry.Size]

LFUSet(c, key, entry, t) ==
    LET stamped == [entry EXCEPT !.CreatedAt = t]
        i == PosOf(c.items, key) IN
    IF i # 0
    THEN [c EXCEPT !.items = heapFix([c.items EXCEPT ![i].entry = stamped,
                                                     ![i].freq = @ + 1], i - 1),
                   !.currentSize = (@ - c.items[i].entry.Size) + entry.Size]
    ELSE LET c1 == LFUmakeRoom(c, entry.Size) IN
         [c1 EXCEPT !.items = heapPush(c1.items, [key |-> key, entry |-> stamped, freq |-> 1]),
                    !.currentSize = @ + entry.Size]

LFUDelete(c, key) ==
    LET i == PosOf(c.items, key) IN
    IF i # 0 THEN LFUremoveItem(c, i) ELSE c

LFUClear(c) == [c EXCEPT !.items = <<>>, !.currentSize = 0, !.stats = ZeroStats]

LFUStats(c) == [c.stats EXCEPT !.Size = c.currentSize, !.ItemCount = Len(c.items)]

\* one pass of the sweeper, visiting the keys of the items map in the order keys
RECURSIVE LFUsweep(_, _, _)
LFUsweep(c, keys, t) ==
    IF keys = <<>> THEN c
    ELSE LET i == PosOf(c.items, Head(keys))
             c1 == IF i # 0 /\ t - c.items[i].entry.CreatedAt > c.ttl
                   THEN LFUremoveItem(c, i)
                   ELSE c
         IN LFUsweep(c1, Tail(keys), t)

\* the orders in which a range over a Go map may visit the keys in S
MapOrders(S) ==
    {o \in [1..Cardinality(S) -> S] : \A a \in S : \E i \in 1..Cardinality(S) : o[i] = a}

(***************************************************************************)
(* The Cache interface, dispatched on the strategy as NewCache does.       *)
(***************************************************************************)
NewCache(strat, maxSize, ttl) ==
    IF strat = "LFU" THEN NewLFUCache(maxSize, ttl) ELSE NewLRUCache(maxSize, ttl)

CacheGet(strat, c, key, t) ==
    IF strat = "LFU" THEN LFUGet(c, key, t) ELSE LRUGet(c, key, t)

CacheSet(strat, c, key, entry, t) ==
    IF strat = "LFU" THEN LFUSet(c, key, entry, t) ELSE LRUSet(c, key, entry, t)

CacheDelete(strat, c, key) ==
    IF strat = "LFU" THEN LFUDelete(c, key) ELSE LRUDelete(c, key)

CacheClear(strat, c) ==
    IF strat = "LFU" THEN LFUClear(c) ELSE LRUClear(c)

CacheStatsOf(strat, c) ==
    IF strat = "LFU" THEN LFUStats(c) ELSE LRUStats(c)

\* what the store holds
HeldKeys(c) == {c.items[i].key : i \in 1..Len(c.items)}

HeldEntry(c, k) == c.items[PosOf(c.items, k)].entry

HeldBytes(c) == SumSizes(c.items)

(***************************************************************************)
(* The store driven by a client: one action per operation of the           *)
(* interface, the sweeper, and the clock.                                  *)
(***************************************************************************)
NoOp == [op |-> "none", key |-> "none", ok |-> FALSE, entry |-> NoEntry, at |-> 0,
         expired |-> FALSE, order |-> <<>>]

\* the held keys in the order of their insertion, after an operation that
\* left the store as c: removed keys leave the order, a new key joins last
InsertionOrder(order, c) ==
    LET held == HeldKeys(c)
        kept == SelectSeq(order, LAMBDA k : k \in held)
        new == held \ {kept[i] : i \in 1..Len(kept)}
    IN  IF new = {} THEN kept ELSE Append(kept, CHOOSE k \in new : TRUE)

\* lastSet after an operation on key k (keep = the data now set for k, or
\* NoEntry when the operation was not a Set/Get of k)
OnlyKey(k, keep) == [j \in Keys |-> IF j = k THEN keep ELSE NoEntry]

InitCache ==
    /\ strategy \in Strategies
    /\ cache = NewCache(strategy, CacheSize, CacheTTL)
    /\ now = 0
    /\ nops = 0
    /\ lastOp = NoOp
    /\ lastSet = [k \in Keys |-> NoEntry]

\* a held entry for key is older than TTL at time t
Expired(c, key, t) ==
    key \in HeldKeys(c) /\ t - HeldEntry(c, key).CreatedAt > c.ttl

Get(key) ==
    /\ nops < MaxOps
    /\ LET r == CacheGet(strategy, cache, key, now) IN
       /\ cache' = r.cache
       /\ lastOp' = [op |-> "Get", key |-> key, ok |-> r.ok, entry |-> r.entry, at |-> now,
                     expired |-> Expired(cache, key, now),
                     order |-> InsertionOrder(lastOp.order, r.cache)]
       /\ lastSet' = OnlyKey(key, IF lastSet[key] # NoEntry /\ now - lastSet[key].at > CacheTTL
                                  THEN NoEntry ELSE lastSet[key])
    /\ nops' = nops + 1
    /\ UNCHANGED <<strategy, now>>

Set(key, data, size) ==
    /\ nops < MaxOps
    /\ LET entry == [Data |-> data, Size |-> size, CreatedAt |-> 0, AccessCount |-> 0] IN
       /\ cache' = CacheSet(strategy, cache, key, entry, now)
       /\ lastOp' = [NoOp EXCEPT !.op = "Set", !.key = key, !.ok = TRUE, !.entry = entry,
                                 !.order = InsertionOrder(lastOp.order, cache')]
       /\ lastSet' = OnlyKey(key, [Data |-> data, at |-> now,
                                   n |-> IF lastSet[key] = NoEntry THEN 1 ELSE 2])
    /\ nops' = nops + 1
    /\ UNCHANGED <<strategy, now>>

Delete(key) ==
    /\ nops < MaxOps
    /\ cache' = CacheDelete(strategy, cache, key)
    /\ lastOp' = [NoOp EXCEPT !.op = "Delete", !.key = key,
                              !.order = InsertionOrder(lastOp.order, cache')]
    /\ lastSet' = [k \in Keys |-> NoEntry]
    /\ nops' = nops + 1
    /\ UNCHANGED <<strategy, now>>

Clear ==
    /\ nops < MaxOps
    /\ cache' = CacheClear(strategy, cache)
    /\ lastOp' = [NoOp EXCEPT !.op = "Clear", !.order = InsertionOrder(lastOp.order, cache')]
    /\ lastSet' = [k \in Keys |-> NoEntry]
    /\ nops' = nops + 1
    /\ UNCHANGED <<strategy, now>>

\* Stats writes Size and ItemCount into c.stats and returns the record
Stats ==
    /\ nops < MaxOps
    /\ LET st == CacheStatsOf(strategy, cache) IN
       /\ cache' = [cache EXCEPT !.stats = st]
       /\ lastOp' = [NoOp EXCEPT !.op = "Stats", !.entry = st, !.order = lastOp.order]
    /\ nops' = nops + 1
    /\ UNCHANGED <<strategy, now, lastSet>>

\* one tick of the sweeper's ticker
CleanupExpired ==
    /\ nops < MaxOps
    /\ \/ /\ strategy = "LRU"
          /\ cache' = LRUcleanupExpired(cache, now)
       \/ /\ strategy = "LFU"
          /\ \E o \in MapOrders(HeldKeys(cache)) : cache' = LFUsweep(cache, o, now)
    /\ cache' # cache
    /\ lastOp' = [NoOp EXCEPT !.op = "Sweep", !.order = InsertionOrder(lastOp.order, cache')]
    /\ lastSet' = [k \in Keys |-> NoEntry]
    /\ nops' = nops + 1
    /\ UNCHANGED <<strategy, now>>

Tick ==
    /\ now < MaxTime
    /\ now' = now + 1
    /\ UNCHANGED <<strategy, cache, nops, lastOp, lastSet>>

(***************************************************************************)
(* Paths and content hashes.  A path is a sequence of string tokens whose  *)
(* concatenation is the Go string: "/", a directory such as "static/", a   *)
(* file name, and last the extension with its dot.  A hex digest is a      *)
(* sequence of hex-digit tokens.                                           *)
(***************************************************************************)
\* bytes of a SHA-256 digest the model keeps (VersionHashLength <= 16 uses 8)
DigestBytes == 16

\* file contents: byte strings
Contents == {<<1>>, <<2>>}

RECURSIVE SumSeq(_)
SumSeq(s) == IF s = <<>> THEN 0 ELSE Head(s) + SumSeq(Tail(s))

\* sha256.Sum256, cut to DigestBytes bytes: different contents of the model
\* differ in every byte
Sum256(content) ==
    [i \in 1..DigestBytes |-> ((SumSeq(content) + 3 * Len(content)) * 37 + 11 * i) % 256]

HexDigits == <<"0", "1", "2", "3", "4", "5", "6", "7",
               "8", "9", "a", "b", "c", "d", "e", "f">>

RECURSIVE EncodeToString(_)
EncodeToString(bytes) ==
    IF bytes = <<>> THEN <<>>
    ELSE <<HexDigits[(Head(bytes) \div 16) + 1], HexDigits[(Head(bytes) % 16) + 1]>>
         \o EncodeToString(Tail(bytes))

\* filepath.Ext and strings.TrimSuffix(path, ext)
Ext(path) == path[Len(path)]

TrimExt(path) == SubSeq(path, 1, Len(path) - 1)

HasPrefix(path, prefix) ==
    Len(path) >= Len(prefix) /\ SubSeq(path, 1, Len(prefix)) = prefix

\* strings.ReplaceAll of {base}, {hash} and {ext} in a pattern
RECURSIVE ExpandPattern(_, _, _, _)
ExpandPattern(pattern, base, hash, ext) ==
    IF pattern = <<>> THEN <<>>
    ELSE (CASE Head(pattern) = "{base}" -> base
            [] Head(pattern) = "{hash}" -> hash
            [] Head(pattern) = "{ext}" -> <<ext>>
            [] OTHER -> <<Head(pattern)>>)
         \o ExpandPattern(Tail(pattern), base, hash, ext)

(***************************************************************************)
(* AssetVersionManager                                                     *)
(***************************************************************************)
\* Go maps: functions on the set of their keys
EmptyMap == << >>

MapPut(m, k, v) == [x \in (DOMAIN m) \cup {k} |-> IF x = k THEN v ELSE m[x]]

MapDelete(m, k) == [x \in (DOMAIN m) \ {k} |-> m[x]]

NewAssetVersionManager(pattern, hashLen, urlPrefix) ==
    [versionedPaths |-> EmptyMap, originalPaths |-> EmptyMap, contentHashes |-> EmptyMap,
     pattern |-> pattern,
     hashLength |-> IF hashLen > 0 THEN hashLen ELSE 16,
     urlPrefix |-> urlPrefix]

\* the versioned path and the hash of (originalPath, content)
GenerateVersionedPath(a, originalPath, content) ==
    LET versionHash == EncodeToString(SubSeq(Sum256(content), 1, a.hashLength \div 2))
        ext == Ext(originalPath)
        base == TrimExt(originalPath)
        versionedPath ==
            IF a.pattern # <<>>
            THEN ExpandPattern(a.pattern, base, versionHash, ext)
            ELSE base \o <<".">> \o versionHash \o <<ext>>
    IN [path |-> versionedPath, hash |-> versionHash]

RegisterAsset(a, originalPath, content) ==
    LET g == GenerateVersionedPath(a, originalPath, content) IN
    IF a.urlPrefix # ""
    THEN LET prefixedOriginal == <<a.urlPrefix>> \o originalPath
             prefixedVersioned == <<a.urlPrefix>> \o g.path
         IN [a EXCEPT
               !.versionedPaths = MapPut(MapPut(@, originalPath, g.path),
                                         prefixedOriginal, prefixedVersioned),
               !.originalPaths = MapPut(MapPut(@, g.path, originalPath),
                                        prefixedVersioned, originalPath),
               !.contentHashes = MapPut(MapPut(@, originalPath, g.hash),
                                        prefixedOriginal, g.hash)]
    ELSE [a EXCEPT !.versionedPaths = MapPut(@, originalPath, g.path),
                   !.originalPaths = MapPut(@, g.path, originalPath),
                   !.contentHashes = MapPut(@, originalPath, g.hash)]

GetVersionedPath(a, originalPath) ==
    IF originalPath \in DOMAIN a.versionedPaths
    THEN [path |-> a.versionedPaths[originalPath], exists |-> TRUE]
    ELSE [path |-> <<>>, exists |-> FALSE]

GetOriginalPath(a, versionedPath) ==
    IF versionedPath \in DOMAIN a.originalPaths
    THEN [path |-> a.originalPaths[versionedPath], exists |-> TRUE]
    ELSE [path |-> <<>>, exists |-> FALSE]

GetContentHash(a, path) ==
    IF path \in DOMAIN a.contentHashes
    THEN [hash |-> a.contentHashes[path], exists |-> TRUE]
    ELSE [hash |-> <<>>, exists |-> FALSE]

IsVersionedPath(a, path) == path \in DOMAIN a.originalPaths

RemoveAsset(a, originalPath) ==
    LET a1 == IF originalPath \in DOMAIN a.versionedPaths
              THEN [a EXCEPT !.originalPaths = MapDelete(@, a.versionedPaths[originalPath])]
              ELSE a
    IN [a1 EXCEPT !.versionedPaths = MapDelete(@, originalPath),
                  !.contentHashes = MapDelete(@, originalPath)]

VersionableExts == {".css", ".js", ".mjs", ".png", ".jpg", ".jpeg", ".gif", ".svg",
                    ".webp", ".ico", ".woff", ".woff2", ".ttf", ".otf", ".eot"}

isVersionableExtension(path) == Ext(path) \in VersionableExts

\* the default static prefixes, as token sequences
StaticPrefixes == {<<"/", "static/">>, <<"/", "assets/">>, <<"/", "dist/">>, <<"/", "build/">>}

shouldVersionFile(path) ==
    /\ \E prefix \in StaticPrefixes : HasPrefix(path, prefix)
    /\ isVersionableExtension(path)

(***************************************************************************)
(* The version index driven by a client: register and remove.              *)
(***************************************************************************)
\* logical paths handed to RegisterAsset and RemoveAsset
LogicalPaths == {<<"/", "static/", "a", ".js">>,
                 <<"/", "static/", "b", ".js">>,
                 <<"/", "static/", "a", ".css">>}

\* configured VersioningPattern values ("" is the default pattern)
Patterns == {<<>>, <<"{base}", "-", "{hash}", "{ext}">>, <<"{hash}", "{ext}">>}

\* configured VersionHashLength values
HashLengths == {4, 8}

\* configured URLPrefix values
URLPrefixes == {"", "/static"}

NoReg == [op |-> "none", path |-> <<>>, content |-> <<>>, prev |-> <<>>]

VARIABLES
    avm,         \* the AssetVersionManager
    registered,  \* per logical path: the bytes most recently registered and
                 \* not removed since, or NoEntry
    lastReg      \* the last index operation; prev is versioned(path) before it

indexVars == <<avm, registered, lastReg>>

InitIndex ==
    /\ \E pat \in Patterns, hl \in HashLengths, up \in URLPrefixes :
          avm = NewAssetVersionManager(pat, hl, up)
    /\ registered = [p \in LogicalPaths |-> NoEntry]
    /\ lastReg = NoReg

Register(path, content) ==
    /\ avm' = RegisterAsset(avm, path, content)
    /\ registered' = [registered EXCEPT ![path] = [Data |-> content]]
    /\ lastReg' = [op |-> "Register", path |-> path, content |-> content,
                   prev |-> GetVersionedPath(avm, path).path]

Remove(path) ==
    /\ avm' = RemoveAsset(avm, path)
    /\ registered' = [registered EXCEPT ![path] = NoEntry]
    /\ lastReg' = [op |-> "Remove", path |-> path, content |-> <<>>,
                   prev |-> GetVersionedPath(avm, path).path]

(***************************************************************************)
(* The server: files on disk, requests in flight, the invalidator.         *)
(***************************************************************************)
VARIABLES
    cfg,          \* Config: EnableVersioning, EnableWatcher
    disk,         \* per file: its bytes, or Absent
    fver,         \* per file: how many times it was changed
    req,          \* per request slot: where serveFile stands and its locals
    events,       \* fsnotify events not yet consumed by FileWatcher.watch
    invalidated,  \* per file: the change up to which an invalidation completed
    lastServe,    \* the response written by the step just taken, if any
    lastAct,      \* the last step taken by the server or its environment
    nreq,         \* requests started
    nwrites,      \* file changes made
    call,         \* the last call of a pure function: its name, inputs, result
    tasks,        \* the server and its goroutines: running, done, or none
    callers,      \* per goroutine calling into the store or the index: where
                  \* its call stands and the call's locals
    completed     \* the calls that returned, in the order of their return: the
                  \* Gets of the store since the last Clear, the register and
                  \* remove calls of the index

serverVars == <<cfg, disk, fver, req, events, invalidated, lastServe, lastAct, nreq, nwrites,
                call, tasks, callers, completed>>

vars == <<cacheVars, indexVars, serverVars>>

\* no file: not a byte string
Absent == <<-1>>

NoServe == [status |-> 0]

NoAct == [act |-> "none"]

NoCall == [fn |-> "none"]

\* the goroutines that call into the store or the index
Callers == {1, 2}

IdleCaller == [pc |-> "idle"]

NoCallers == [c \in Callers |-> IdleCaller]

NoTasks == [server |-> "none", shutdown |-> "none", stopChan |-> "none", watcher |-> "none",
            sweeper |-> "none"]

\* after New: the shutdown channel is made, NewFileWatcher has made stopChan when
\* the watcher is configured, NewLRUCache has started cleanupExpired
NewTasks(enableWatcher) ==
    [server |-> "new",
     shutdown |-> "open",
     stopChan |-> IF enableWatcher THEN "open" ELSE "none",
     watcher |-> "none",
     sweeper |-> "running"]

\* after New and Server.Start: NewLRUCache has started cleanupExpired, and
\* FileWatcher.Start the watch goroutine when the watcher is configured
StartedTasks(enableWatcher) ==
    [server |-> "running",
     shutdown |-> "open",
     stopChan |-> IF enableWatcher THEN "open" ELSE "none",
     watcher |-> IF enableWatcher THEN "running" ELSE "none",
     sweeper |-> "running"]

\* the index and the server when only the store is exercised
IdleIndex ==
    /\ avm = NewAssetVersionManager(<<>>, 8, "")
    /\ registered = [p \in LogicalPaths |-> NoEntry]
    /\ lastReg = NoReg

IdleServer ==
    /\ cfg = [EnableVersioning |-> FALSE, EnableWatcher |-> FALSE]
    /\ disk = << >>
    /\ fver = << >>
    /\ req = << >>
    /\ events = << >>
    /\ invalidated = << >>
    /\ lastServe = NoServe
    /\ lastAct = NoAct
    /\ nreq = 0
    /\ nwrites = 0
    /\ call = NoCall
    /\ tasks = NoTasks
    /\ callers = NoCallers
    /\ completed = << >>

\* the store when only the index is exercised
IdleCache ==
    /\ strategy = "LRU"
    /\ cache = NewCache("LRU", CacheSize, CacheTTL)
    /\ now = 0
    /\ nops = 0
    /\ lastOp = NoOp
    /\ lastSet = [k \in Keys |-> NoEntry]

(***************************************************************************)
(* The server's configuration and the pure steps of serveFile.  Requests   *)
(* are GETs of valid file paths without conditional headers; the clock     *)
(* stands still, so no entry expires while the server is exercised.        *)
(***************************************************************************)
\* requests in one behaviour, and file changes in one behaviour
MaxReqs == 2
MaxWrites == 2

\* Config.CacheSize and Config.CacheTTL of the server (no eviction, no expiry
\* within MaxReqs requests) and Config.MinSizeToCompress, in bytes
ServerCacheSize == 100
ServerCacheTTL == 5
MinSizeToCompress == 1

\* Config.Root
Root == "root"

\* the files under the root, by URL path
FilePaths == {<<"/", "static/", "app", ".js">>}

\* goroutines serving requests
Reqs == {1, 2}

\* Accept-Encoding headers of the requests
AcceptEncodings == {<<>>, <<"gzip">>}

Contains(s, tok) == \E i \in 1..Len(s) : s[i] = tok

\* extensions whose MIME type is in Config.CompressTypes
CompressibleExts == {".js", ".css", ".txt", ".html", ".json", ".svg"}

ShouldCompress(ext, size) ==
    IF size < MinSizeToCompress THEN FALSE ELSE ext \in CompressibleExts

\* strings.ToLower on a header token
LowerToken(tok) ==
    CASE tok = "BR" -> "br"
      [] tok = "GZIP" -> "gzip"
      [] OTHER -> tok

\* Config.Compression of DefaultConfig: Gzip | Brotli
DefaultCompression == {"gzip", "br"}

\* GetCompressor with gzip tried before brotli
GetCompressor_GzipFirst(compression, acceptEncoding) ==
    LET lower == [i \in 1..Len(acceptEncoding) |-> LowerToken(acceptEncoding[i])] IN
    IF "gzip" \in compression /\ (Contains(lower, "gzip") \/ Contains(lower, "*")) THEN "gzip"
    ELSE IF "br" \in compression /\ Contains(lower, "br") THEN "br"
    ELSE "none"

\* the CompressionType chosen for an Accept-Encoding header, a sequence of
\* tokens in which "br", "gzip" and "*" occur only as whole tokens
GetCompressor(compression, acceptEncoding) ==
    LET lower == [i \in 1..Len(acceptEncoding) |-> LowerToken(acceptEncoding[i])] IN
    IF "br" \in compression /\ Contains(lower, "br") THEN "br"
    ELSE IF "gzip" \in compression /\ (Contains(lower, "gzip") \/ Contains(lower, "*"))
    THEN "gzip"
    ELSE "none"

\* the magic number that opens a stream of each encoding (not a byte value)
Magic == [gzip |-> 256, br |-> 257]

\* an encoder that returns its input
Compress_Identity(compressionType, data) == data

\* Compressor.Compress: the encoded bytes are the magic number and the payload
Compress(compressionType, data) == <<Magic[compressionType]>> \o data

\* what a client's decoder makes of a response body
Decode(body) ==
    IF body # <<>> /\ Head(body) \in {Magic.gzip, Magic.br} THEN Tail(body) ELSE body

TrimPrefix(s, tok) == IF s # <<>> /\ Head(s) = tok THEN Tail(s) ELSE s

\* path.Clean("/" + strings.TrimPrefix(originalPath, "/"))
cleanPath(originalPath) == <<"/">> \o TrimPrefix(originalPath, "/")

\* filepath.Join(root, strings.TrimPrefix(relPath, "/"))
securePath(root, relPath) == <<root, "/">> \o TrimPrefix(relPath, "/")

\* filepath.Rel(root, path): the path below the root, without a leading "/"
Rel(root, path) ==
    IF HasPrefix(path, <<root, "/">>)
    THEN [path |-> SubSeq(path, 3, Len(path)), err |-> FALSE]
    ELSE [path |-> <<>>, err |-> TRUE]

\* the files on disk, by full path
FullPaths == {securePath(Root, p) : p \in FilePaths}

CacheKey(path, compressionType, isVersioned) ==
    [Path |-> path, Compression |-> compressionType, IsVersioned |-> isVersioned]

\* FileWatcher.InvalidatePath(path), on the store
FileWatcherInvalidatePath(strat, c, path) ==
    LET rel == Rel(Root, path) IN
    IF rel.err THEN c
    ELSE CacheDelete(strat,
           CacheDelete(strat,
             CacheDelete(strat, c, CacheKey(rel.path, "none", FALSE)),
             CacheKey(rel.path, "gzip", FALSE)),
           CacheKey(rel.path, "br", FALSE))

\* ManualInvalidator.InvalidatePath(path), on the store
ManualInvalidatePath(strat, c, path) ==
    CacheDelete(strat,
      CacheDelete(strat,
        CacheDelete(strat, c, CacheKey(path, "none", FALSE)),
        CacheKey(path, "gzip", FALSE)),
      CacheKey(path, "br", FALSE))

\* the version refresh of the versioned watcher for the file at fullPath:
\* re-register the logical path with the bytes now on disk, or remove it
VersionedWatcherRefresh(a, enabled, fullPath, content) ==
    LET rel == Rel(Root, fullPath)
        logical == <<"/">> \o rel.path IN
    IF ~enabled \/ rel.err \/ ~shouldVersionFile(logical) THEN a
    ELSE IF content = Absent THEN RemoveAsset(a, logical)
    ELSE RegisterAsset(a, logical, content)

\* a file that is listed and cannot be read: not a byte string
Unreadable == <<-2>>

\* AssetVersionManager.ScanDirectory over the files in walk order: the index
\* it leaves and whether it returned an error.  A file that is not there is
\* not visited; a versionable file is read, and a failed read ends the walk
RECURSIVE ScanDirectory(_, _, _)
ScanDirectory(a, files, d) ==
    IF files = <<>> THEN [avm |-> a, err |-> FALSE]
    ELSE LET fullPath == Head(files)
             relativePath == <<"/">> \o TrimPrefix(SubSeq(fullPath, 2, Len(fullPath)), "/")
         IN  IF d[fullPath] = Absent \/ ~shouldVersionFile(relativePath)
             THEN ScanDirectory(a, Tail(files), d)
             ELSE IF d[fullPath] = Unreadable
             THEN [avm |-> a, err |-> TRUE]
             ELSE ScanDirectory(RegisterAsset(a, relativePath, d[fullPath]), Tail(files), d)

\* filepath.Walk visits the files in lexical order
WalkOrder == <<securePath(Root, <<"/", "static/", "app", ".js">>)>>

\* the URLs requested: the files and every versioned form of a versionable file
URLs ==
    FilePaths \cup
    {GenerateVersionedPath(NewAssetVersionManager(<<>>, 8, ""), p, c).path :
        p \in {q \in FilePaths : shouldVersionFile(q)}, c \in Contents}

IdleReq == [pc |-> "idle"]

\* a request header that is not sent
NoHeader == <<>>

(***************************************************************************)
(* Cache-Control.  A token of a path holds at most one ".": the extension  *)
(* tokens and "." hold one, names, directories and hex digits none.        *)
(***************************************************************************)
\* Config.StaticAssetMaxAge and Config.DynamicAssetMaxAge, in seconds
StaticAssetMaxAge == 86400
DynamicAssetMaxAge == 3600

\* directory tokens
DirTokens == {"/", "static/", "assets/", "dist/", "build/"}

\* the tokens that hold a "."
DotTokens ==
    {".", ".min", ".v2", ".JS", ".html", ".htm", ".json", ".xml", ".txt", ".md", ".pdf"}
        \cup VersionableExts

\* strings.ToLower on an extension
ToLower(tok) ==
    CASE tok = ".JS" -> ".js"
      [] OTHER -> tok

\* filepath.Base: the tokens after the last directory
RECURSIVE Base(_)
Base(path) ==
    IF path = <<>> THEN <<>>
    ELSE IF Head(path) \in DirTokens THEN Base(Tail(path))
    ELSE path

\* len(strings.Split(base, "."))
RECURSIVE SplitParts(_)
SplitParts(base) ==
    IF base = <<>> THEN 1
    ELSE (IF Head(base) \in DotTokens THEN 1 ELSE 0) + SplitParts(Tail(base))

isStaticExtension(ext) ==
    ext \in {".css", ".js", ".mjs", ".jpg", ".jpeg", ".png", ".gif", ".svg", ".webp"}

getFileType(path) ==
    LET ext == ToLower(Ext(path))
        staticExts == {".jpg", ".jpeg", ".png", ".gif", ".svg", ".webp", ".ico",
                       ".woff", ".woff2", ".ttf", ".otf", ".eot", ".mp4", ".webm",
                       ".mp3", ".wav", ".pdf", ".zip", ".tar", ".gz"}
        staticButChangeable == {".css", ".js", ".mjs"}
    IN IF SplitParts(Base(path)) >= 3 /\ isStaticExtension(ext) THEN "ImmutableAsset"
       ELSE IF ext \in staticExts THEN "StaticAsset"
       ELSE IF ext \in staticButChangeable THEN "StaticAsset"
       ELSE "DynamicAsset"

\* the header value: public, max-age=<maxAge>, and a directive or none
getCacheControl(path, isVersioned) ==
    IF isVersioned THEN [maxAge |-> 31536000, directive |-> "immutable"]
    ELSE CASE getFileType(path) = "StaticAsset" ->
                [maxAge |-> StaticAssetMaxAge, directive |-> ""]
           [] getFileType(path) = "ImmutableAsset" ->
                [maxAge |-> 31536000, directive |-> "immutable"]
           [] getFileType(path) = "DynamicAsset" ->
                [maxAge |-> DynamicAssetMaxAge, directive |-> "must-revalidate"]

(***************************************************************************)
(* The HTML rewriter.  A document is a sequence of tags, a tag a sequence  *)
(* of attributes [name, quote, url]; its bytes are the codes of its        *)
(* tokens.                                                                 *)
(***************************************************************************)
\* the extensions of HTMLProcessor.linkPattern
LinkPatternExts == {".css", ".js", ".mjs", ".png", ".jpg", ".jpeg", ".gif", ".svg",
                    ".webp", ".ico", ".woff", ".woff2", ".ttf", ".otf"}

\* linkPattern on one attribute [name, quote, url]: (href|src)="...ext", not
\* anchored on the left, double quotes only, extension in lower case
linkPatternMatch(attr) ==
    /\ attr.name \in {"href", "src", "data-src"}
    /\ attr.quote = "dq"
    /\ Ext(attr.url) \in LinkPatternExts

processAssetReference(a, attr) ==
    LET v == GetVersionedPath(a, attr.url) IN
    IF v.exists THEN [attr EXCEPT !.url = v.path] ELSE attr

\* one tag, a sequence of attributes: the leftmost match runs to the closing
\* ">" of the tag, and only its own attribute is replaced
RECURSIVE ProcessTag(_, _)
ProcessTag(a, tag) ==
    IF tag = <<>> THEN <<>>
    ELSE IF linkPatternMatch(Head(tag))
    THEN <<processAssetReference(a, Head(tag))>> \o Tail(tag)
    ELSE <<Head(tag)>> \o ProcessTag(a, Tail(tag))

\* ProcessHTML on a document, a sequence of tags
ProcessHTML(a, enabled, content) ==
    IF ~enabled THEN content
    ELSE [i \in 1..Len(content) |-> ProcessTag(a, content[i])]

\* the tokens of a document and of its URLs
Tokens == <<"href", "src", "data-src", "action", "dq", "sq", ">", " ",
            "/", "static/", "app", "font", "index", ".", ".js", ".eot", ".html",
            "0", "1", "2", "3", "4", "5", "6", "7",
            "8", "9", "a", "b", "c", "d", "e", "f">>

\* the byte of a token
Code(tok) == CHOOSE i \in 1..Len(Tokens) : Tokens[i] = tok

RECURSIVE Codes(_)
Codes(toks) == IF toks = <<>> THEN <<>> ELSE <<Code(Head(toks))>> \o Codes(Tail(toks))

RECURSIVE RenderTag(_)
RenderTag(tag) ==
    IF tag = <<>> THEN <<Code(">")>>
    ELSE <<Code(" "), Code(Head(tag).name), Code(Head(tag).quote)>>
         \o Codes(Head(tag).url) \o RenderTag(Tail(tag))

\* the bytes of a document
RECURSIVE Render(_)
Render(doc) == IF doc = <<>> THEN <<>> ELSE RenderTag(Head(doc)) \o Render(Tail(doc))

\* the page served as /index.html: one script reference
PageDoc == <<<<[name |-> "src", quote |-> "dq", url |-> <<"/", "static/", "app", ".js">>]>>>>

\* the documents whose bytes are files of the model
PageDocs == {PageDoc}

\* ProcessHTML on the bytes of a file
ProcessHTMLBytes(a, enabled, data) ==
    IF \E d \in PageDocs : Render(d) = data
    THEN Render(ProcessHTML(a, enabled, CHOOSE d \in PageDocs : Render(d) = data))
    ELSE data

\* mime.TypeByExtension(filepath.Ext(fullPath))
ContentType(ext) ==
    CASE ext \in {".html", ".htm"} -> "text/html; charset=utf-8"
      [] ext = ".js" -> "text/javascript; charset=utf-8"
      [] ext = ".css" -> "text/css; charset=utf-8"
      [] ext = ".txt" -> "text/plain; charset=utf-8"
      [] OTHER -> "application/octet-stream"

IsHTML(contentType) == contentType = "text/html; charset=utf-8"

\* generateETag: the quoted hex of the first 16 bytes of the digest
generateETag(data) ==
    <<"dq">> \o EncodeToString(SubSeq(Sum256(data), 1, 16)) \o <<"dq">>

(***************************************************************************)
(* The server under concurrent requests, file changes and invalidations.   *)
(* serveFile runs in steps, one per access to the store, the index or the  *)
(* disk; a request's locals live in req[r].                                *)
(***************************************************************************)
\* New with EnableVersioning and EnableWatcher chosen, then Start
InitServer ==
    /\ cfg \in [EnableVersioning : BOOLEAN, EnableWatcher : BOOLEAN]
    /\ disk = [f \in FullPaths |-> <<1>>]
    /\ fver = [f \in FullPaths |-> 0]
    /\ req = [r \in Reqs |-> IdleReq]
    /\ events = << >>
    /\ invalidated = [f \in FullPaths |-> 0]
    /\ lastServe = NoServe
    /\ lastAct = NoAct
    /\ nreq = 0
    /\ nwrites = 0
    /\ call = NoCall
    /\ tasks = StartedTasks(cfg.EnableWatcher)
    /\ callers = NoCallers
    /\ completed = << >>
    /\ strategy = "LRU"
    /\ cache = NewCache("LRU", ServerCacheSize, ServerCacheTTL)
    /\ now = 0
    /\ nops = 0
    /\ lastOp = NoOp
    /\ lastSet = [k \in Keys |-> NoEntry]
    /\ avm = IF cfg.EnableVersioning
             THEN ScanDirectory(NewAssetVersionManager(<<>>, 8, ""), WalkOrder, disk).avm
             ELSE NewAssetVersionManager(<<>>, 8, "")
    /\ registered = [p \in LogicalPaths |-> NoEntry]
    /\ lastReg = NoReg

\* what the steps of the server leave alone
ServerFrame ==
    UNCHANGED <<strategy, now, nops, lastOp, lastSet, registered, lastReg, cfg, call, tasks,
                callers, completed>>

\* a response as the client keeps it until its next request
Received(resp) ==
    IF "prev" \in DOMAIN resp THEN [resp EXCEPT !.prev = NoServe] ELSE resp

\* the headers and the ghost fields that the two serving paths share
ResponseOf(q, status, body, etag, contentEncoding, entry, fromCache, c) ==
    [status |-> status, urlPath |-> q.urlPath, body |-> body,
     etag |-> etag, contentEncoding |-> contentEncoding,
     cacheControl |-> getCacheControl(q.urlPath, q.isVersioned),
     acceptEncoding |-> q.acceptEncoding, ifNoneMatch |-> q.ifNoneMatch,
     file |-> entry.file, ver |-> entry.ver,
     fromCache |-> fromCache, isVersioned |-> q.isVersioned,
     inval |-> invalidated[entry.file],
     hits |-> CacheStatsOf(strategy, c).Hits, stored |-> entry.ETag,
     prev |-> q.prev, settled |-> q.settled]

Respond(r, resp) ==
    /\ lastServe' = resp
    /\ req' = [req EXCEPT ![r] = IdleReq]

\* Config.MaxBodySize of DefaultConfig: 10 MB
MaxBodySize == 10 * 1024 * 1024

\* the length in characters of a path token
TokLen(tok) ==
    CASE tok \in {"/", "."} -> 1
      [] tok \in {"app", ".js", "../", "..\\", "%00", "./.", "\\x00"} -> 3
      [] tok \in {".%2e", ".%2E", ".txt", ".png", "logo"} -> 4
      [] tok \in {"..%2f", "..%2F", "..%5c", "..%5C", "%252e", "%252E", "hello", "index",
                  ".html"} -> 5
      [] tok = "static/" -> 7
      [] tok = "x*2044" -> 2044
      [] tok = "x*2045" -> 2045
      [] OTHER -> 1

RECURSIVE PathLen(_)
PathLen(urlPath) == IF urlPath = <<>> THEN 0 ELSE TokLen(Head(urlPath)) + PathLen(Tail(urlPath))

\* strings.ToLower on a path token
LowerPathToken(tok) ==
    CASE tok = "..%2F" -> "..%2f"
      [] tok = "..%5C" -> "..%5c"
      [] tok = ".%2E" -> ".%2e"
      [] tok = "%252E" -> "%252e"
      [] OTHER -> tok

suspiciousPatterns == {"../", "..\\", "..%2f", "..%2F", "..%5c", "..%5C", "%00", "./.",
                       ".%2e", "%252e"}

\* isValidPath: a path is a sequence of tokens in which a suspicious pattern
\* or a NUL byte occurs only as a whole token
isValidPath(urlPath) ==
    /\ ~Contains(urlPath, "\\x00")
    /\ \A i \in 1..Len(urlPath) : LowerPathToken(urlPath[i]) \notin suspiciousPatterns
    /\ PathLen(urlPath) <= 2048

\* the validate step of serveFile: 0 if the request passes, else the status
\* of the error it is answered with
ValidateStatus(method, contentLength, urlPath) ==
    IF method \notin {"GET", "HEAD", "OPTIONS"} THEN 405
    ELSE IF contentLength > 0 /\ contentLength > MaxBodySize THEN 413
    ELSE IF ~isValidPath(urlPath) THEN 403
    ELSE 0

\* serveFile with the store consulted before the request is validated
RejectRequest_LookupFirst(r, method, contentLength, urlPath) ==
    /\ req[r].pc = "idle"
    /\ nreq < MaxReqs
    /\ \A q \in Reqs : q < r => req[q].pc # "idle"
    /\ ValidateStatus(method, contentLength, urlPath) # 0
    /\ cache' = CacheGet(strategy, cache, CacheKey(urlPath, "none", FALSE), now).cache
    /\ lastServe' = [status |-> ValidateStatus(method, contentLength, urlPath),
                     method |-> method, contentLength |-> contentLength,
                     urlPath |-> urlPath, rejected |-> TRUE]
    /\ nreq' = nreq + 1
    /\ lastAct' = NoAct
    /\ UNCHANGED <<avm, disk, fver, req, events, invalidated, nwrites>>
    /\ ServerFrame

\* serveFile on a request that fails the validate step: the error response
RejectRequest(r, method, contentLength, urlPath) ==
    /\ req[r].pc = "idle"
    /\ nreq < MaxReqs
    /\ \A q \in Reqs : q < r => req[q].pc # "idle"
    /\ ValidateStatus(method, contentLength, urlPath) # 0
    /\ lastServe' = [status |-> ValidateStatus(method, contentLength, urlPath),
                     method |-> method, contentLength |-> contentLength,
                     urlPath |-> urlPath, rejected |-> TRUE]
    /\ nreq' = nreq + 1
    /\ lastAct' = NoAct
    /\ UNCHANGED <<cache, avm, disk, fver, req, events, invalidated, nwrites>>
    /\ ServerFrame

\* serveFile up to the cache key, for a GET that passes the validate step:
\* resolve a versioned URL, secure the path, choose the encoding
BeginRequest(r, urlPath, acceptEncoding, ifNoneMatch) ==
    /\ req[r].pc = "idle"
    /\ nreq < MaxReqs
    /\ \A q \in Reqs : q < r => req[q].pc # "idle"
    /\ LET resolved == GetOriginalPath(avm, urlPath)
           isVersioned == cfg.EnableVersioning /\ IsVersionedPath(avm, urlPath)
                             /\ resolved.exists
           originalPath == IF isVersioned THEN resolved.path ELSE urlPath
       IN req' = [req EXCEPT ![r] =
                    [pc |-> "lookup", urlPath |-> urlPath,
                     originalPath |-> originalPath, isVersioned |-> isVersioned,
                     fullPath |-> securePath(Root, cleanPath(originalPath)),
                     compressionType |-> GetCompressor(DefaultCompression, acceptEncoding),
                     acceptEncoding |-> acceptEncoding, ifNoneMatch |-> ifNoneMatch,
                     prev |-> Received(lastServe),
                     settled |-> events = << >>]]
    /\ nreq' = nreq + 1
    /\ lastAct' = NoAct
    /\ lastServe' = NoServe
    /\ UNCHANGED <<cache, avm, disk, fver, events, invalidated, nwrites>>
    /\ ServerFrame

\* s.cache.Get(cacheKey); a hit is answered by serveFromCache
Lookup(r) ==
    /\ req[r].pc = "lookup"
    /\ LET q == req[r]
           g == CacheGet(strategy, cache,
                         CacheKey(q.urlPath, q.compressionType, q.isVersioned), now)
       IN /\ cache' = g.cache
          /\ IF g.ok
             THEN IF q.ifNoneMatch = g.entry.ETag
                  THEN Respond(r, ResponseOf(q, 304, <<>>, g.entry.ETag, q.compressionType,
                                             g.entry, TRUE, g.cache))
                  ELSE Respond(r, ResponseOf(q, 200, g.entry.Data, g.entry.ETag,
                                             q.compressionType, g.entry, TRUE, g.cache))
             ELSE /\ req' = [req EXCEPT ![r].pc = "stat"]
                  /\ lastServe' = NoServe
    /\ lastAct' = NoAct
    /\ UNCHANGED <<avm, disk, fver, events, invalidated, nreq, nwrites>>
    /\ ServerFrame

\* Config.IndexFile of DefaultConfig, as the tokens filepath.Join appends
IndexFile == <<"index", ".html">>

\* info.IsDir(): the path is that of a directory holding a file of the disk
IsDir(d, fullPath) ==
    \E f \in DOMAIN d :
        Len(f) > Len(fullPath) /\ SubSeq(f, 1, Len(fullPath)) = fullPath

\* os.Stat(fullPath); a directory is answered from its index file, and with
\* not-found when it has none (AllowBrowsing is off by default)
StatFile(r) ==
    /\ req[r].pc = "stat"
    /\ LET q == req[r]
           indexPath == q.fullPath \o IndexFile IN
       IF IsDir(disk, q.fullPath)
       THEN IF indexPath \in DOMAIN disk /\ disk[indexPath] # Absent
            THEN /\ req' = [req EXCEPT ![r] =
                              [q EXCEPT !.pc = "read", !.fullPath = indexPath,
                                        !.originalPath = q.originalPath \o IndexFile] @@
                              [size |-> Len(disk[indexPath])]]
                 /\ lastServe' = NoServe
            ELSE Respond(r, [status |-> 404, urlPath |-> q.urlPath])
       ELSE IF q.fullPath \in DOMAIN disk /\ disk[q.fullPath] # Absent
       THEN /\ req' = [req EXCEPT ![r] = [q EXCEPT !.pc = "read"] @@
                                          [size |-> Len(disk[q.fullPath])]]
            /\ lastServe' = NoServe
       ELSE Respond(r, [status |-> 404, urlPath |-> q.urlPath])
    /\ lastAct' = NoAct
    /\ UNCHANGED <<cache, avm, disk, fver, events, invalidated, nreq, nwrites>>
    /\ ServerFrame

\* DefaultMaxFileSize: 100 MB
DefaultMaxFileSize == 100 * 1024 * 1024

\* Config.MaxFileSize: the default unless the configuration sets it
MaxFileSizeOf(config) ==
    IF "MaxFileSize" \in DOMAIN config THEN config.MaxFileSize ELSE DefaultMaxFileSize

\* io.ReadAll(io.LimitReader(file, n))
LimitRead(bytes, n) == SubSeq(bytes, 1, IF Len(bytes) < n THEN Len(bytes) ELSE n)

\* the size check without the read of one more byte
FileTooLarge_NoProbe(bytes, data, max) == Len(data) = max

\* the size check: the limit was read in full and one more byte can be read
FileTooLarge(bytes, data, max) == Len(data) = max /\ Len(bytes) > Len(data)

\* os.Open, io.ReadAll of at most MaxFileSize bytes and the size check in
\* serveFileWithCompression
ReadFile(r) ==
    /\ req[r].pc = "read"
    /\ LET q == req[r]
           bytes == disk[q.fullPath]
           max == MaxFileSizeOf(cfg)
           data == LimitRead(bytes, max) IN
       IF bytes = Absent
       THEN Respond(r, [status |-> 500, urlPath |-> q.urlPath])
       ELSE IF FileTooLarge(bytes, data, max)
       THEN Respond(r, [status |-> 400, urlPath |-> q.urlPath, err |-> "ErrFileTooLarge"])
       ELSE /\ req' = [req EXCEPT ![r] = [q EXCEPT !.pc = "register"] @@
                                          [data |-> data, ver |-> fver[q.fullPath]]]
            /\ lastServe' = NoServe
    /\ lastAct' = NoAct
    /\ UNCHANGED <<cache, avm, disk, fver, events, invalidated, nreq, nwrites>>
    /\ ServerFrame

\* RegisterAsset of the bytes read, for a versionable file asked for by its
\* logical URL
RegisterRead(r) ==
    /\ req[r].pc = "register"
    /\ LET q == req[r] IN
       avm' = IF cfg.EnableVersioning /\ ~q.isVersioned /\ shouldVersionFile(q.originalPath)
              THEN RegisterAsset(avm, q.originalPath, q.data)
              ELSE avm
    /\ req' = [req EXCEPT ![r].pc = "insert"]
    /\ lastAct' = NoAct
    /\ lastServe' = NoServe
    /\ UNCHANGED <<cache, disk, fver, events, invalidated, nreq, nwrites>>
    /\ ServerFrame

\* the rest of serveFileWithCompression: the headers with the ETag of the
\* bytes read, the conditional answer, the HTML rewriter, the encoder,
\* s.cache.Set under the request's URL, encoding and flavor, the body
Insert(r) ==
    /\ req[r].pc = "insert"
    /\ LET q == req[r]
           contentType == ContentType(Ext(q.fullPath))
           etag == generateETag(q.data)
           rewrite == cfg.EnableVersioning /\ IsHTML(contentType)
           processedData == IF rewrite THEN ProcessHTMLBytes(avm, TRUE, q.data) ELSE q.data
           shouldCompress == q.compressionType # "none"
                                /\ ShouldCompress(Ext(q.fullPath), q.size)
           responseData == IF shouldCompress
                           THEN Compress(q.compressionType, processedData)
                           ELSE processedData
           entry == [Data |-> responseData, Size |-> Len(responseData),
                     CreatedAt |-> 0, AccessCount |-> 0,
                     ETag |-> IF rewrite THEN generateETag(processedData) ELSE etag,
                     file |-> q.fullPath, ver |-> q.ver]
           contentEncoding == IF shouldCompress THEN q.compressionType ELSE "none"
           key == CacheKey(q.urlPath, contentEncoding, q.isVersioned)
       IN IF q.ifNoneMatch = etag
          THEN /\ cache' = cache
               /\ Respond(r, ResponseOf(q, 304, <<>>, etag, "none", entry, FALSE, cache))
          ELSE /\ cache' = CacheSet(strategy, cache, key, entry, now)
               /\ Respond(r, ResponseOf(q, 200, responseData, etag, contentEncoding,
                                        entry, FALSE, cache'))
    /\ lastAct' = NoAct
    /\ UNCHANGED <<avm, disk, fver, events, invalidated, nreq, nwrites>>
    /\ ServerFrame

\* the requests in flight once a file has changed under them
Disturbed(rq) ==
    [r \in Reqs |-> IF rq[r].pc = "idle" THEN rq[r] ELSE [rq[r] EXCEPT !.settled = FALSE]]

\* the fsnotify queue of a running watcher after a change of fullPath
Notify(ev, fullPath, ver) ==
    IF cfg.EnableWatcher THEN Append(ev, [Name |-> fullPath, ver |-> ver]) ELSE ev

\* the file is created or written with new bytes
WriteFile(fullPath, content) ==
    /\ nwrites < MaxWrites
    /\ disk[fullPath] # content
    /\ disk' = [disk EXCEPT ![fullPath] = content]
    /\ fver' = [fver EXCEPT ![fullPath] = @ + 1]
    /\ events' = Notify(events, fullPath, fver[fullPath] + 1)
    /\ req' = Disturbed(req)
    /\ nwrites' = nwrites + 1
    /\ lastAct' = NoAct
    /\ lastServe' = NoServe
    /\ UNCHANGED <<cache, avm, invalidated, nreq>>
    /\ ServerFrame

\* the file is removed
RemoveFile(fullPath) ==
    /\ nwrites < MaxWrites
    /\ disk[fullPath] # Absent
    /\ disk' = [disk EXCEPT ![fullPath] = Absent]
    /\ fver' = [fver EXCEPT ![fullPath] = @ + 1]
    /\ events' = Notify(events, fullPath, fver[fullPath] + 1)
    /\ req' = Disturbed(req)
    /\ nwrites' = nwrites + 1
    /\ lastAct' = NoAct
    /\ lastServe' = NoServe
    /\ UNCHANGED <<cache, avm, invalidated, nreq>>
    /\ ServerFrame

\* FileWatcher.watch takes one event: InvalidatePath(event.Name), and with
\* versioning the refresh of the version record
Watch ==
    /\ cfg.EnableWatcher
    /\ tasks.watcher = "running"
    /\ events # << >>
    /\ LET event == Head(events) IN
       /\ cache' = FileWatcherInvalidatePath(strategy, cache, event.Name)
       /\ avm' = VersionedWatcherRefresh(avm, cfg.EnableVersioning, event.Name,
                                         disk[event.Name])
       /\ invalidated' = [invalidated EXCEPT ![event.Name] = event.ver]
       /\ lastAct' = [act |-> "watch", file |-> event.Name]
    /\ events' = Tail(events)
    /\ lastServe' = NoServe
    /\ UNCHANGED <<disk, fver, req, nreq, nwrites>>
    /\ ServerFrame

\* Server.InvalidatePath(path) by the embedder, with the manual invalidator
InvalidatePath(path) ==
    /\ ~cfg.EnableWatcher
    /\ cache' = ManualInvalidatePath(strategy, cache, path)
    /\ invalidated' = [invalidated EXCEPT ![securePath(Root, path)] = fver[securePath(Root, path)]]
    /\ lastAct' = [act |-> "invalidate", file |-> securePath(Root, path)]
    /\ lastServe' = NoServe
    /\ UNCHANGED <<avm, disk, fver, req, events, nreq, nwrites>>
    /\ ServerFrame

\* Server.InvalidateAll() by the embedder, with the manual invalidator
InvalidateAll ==
    /\ ~cfg.EnableWatcher
    /\ cache' = CacheClear(strategy, cache)
    /\ invalidated' = [f \in DOMAIN invalidated |-> fver[f]]
    /\ lastAct' = [act |-> "invalidateAll", file |-> <<>>]
    /\ lastServe' = NoServe
    /\ UNCHANGED <<avm, disk, fver, req, events, nreq, nwrites>>
    /\ ServerFrame

NextSrv ==
    \/ \E r \in Reqs, u \in URLs, ae \in AcceptEncodings : BeginRequest(r, u, ae, NoHeader)
    \/ \E r \in Reqs : Lookup(r)
    \/ \E r \in Reqs : StatFile(r)
    \/ \E r \in Reqs : ReadFile(r)
    \/ \E r \in Reqs : RegisterRead(r)
    \/ \E r \in Reqs : Insert(r)
    \/ \E f \in FullPaths, c \in Contents : WriteFile(f, c)
    \/ \E f \in FullPaths : RemoveFile(f)
    \/ Watch
    \/ \E p \in FilePaths : InvalidatePath(p)
    \/ InvalidateAll

\* the server with its watcher or its manual invalidator
SpecServer == InitServer /\ [][NextSrv]_vars

(***************************************************************************)
(* The server answering one client that sends one request after another,   *)
(* with and without If-None-Match, while no file changes.                  *)
(***************************************************************************)
\* the files under the root: a page, a text, a script and an image
PageFiles == {<<"/", "index", ".html">>, <<"/", "hello", ".txt">>,
              <<"/", "static/", "app", ".js">>, <<"/", "static/", "logo", ".png">>}

PageFullPaths == {securePath(Root, p) : p \in PageFiles}

\* the bytes of a file of the model
PageBytes(fullPath) ==
    IF Ext(fullPath) = ".html" THEN Render(PageDoc) ELSE <<1>>

PageWalkOrder == <<securePath(Root, <<"/", "index", ".html">>),
                   securePath(Root, <<"/", "hello", ".txt">>),
                   securePath(Root, <<"/", "static/", "app", ".js">>),
                   securePath(Root, <<"/", "static/", "logo", ".png">>)>>

\* the URLs the client asks for: the files and the versioned form of the script
PageURLs ==
    PageFiles \cup
    {GenerateVersionedPath(NewAssetVersionManager(<<>>, 8, ""),
                           <<"/", "static/", "app", ".js">>, <<1>>).path}

\* request methods, Content-Length values (-1: unknown) and paths that the
\* validate step looks at
Methods == {"GET", "HEAD", "OPTIONS", "POST"}

BodySizes == {-1, 0, MaxBodySize, MaxBodySize + 1}

BadPaths == {<<"/", "../", "etc">>, <<"/", "..\\", "etc">>, <<"/", "..%2f", "etc">>,
             <<"/", "..%2F", "etc">>, <<"/", "..%5c", "etc">>, <<"/", "..%5C", "etc">>,
             <<"/", "%00">>, <<"/", "./.", "etc">>, <<"/", ".%2e", "/">>,
             <<"/", ".%2E", "/">>, <<"/", "%252e">>, <<"/", "app", "\\x00", ".js">>,
             <<"/", "x*2044", ".js">>, <<"/", "x*2045", ".js">>}

\* the requests put to the validate step: each of method, size and path
\* varied on its own, and the requests that fail two or three checks
Requests ==
    [method : Methods, contentLength : {0}, urlPath : {<<"/", "static/", "app", ".js">>}]
    \cup [method : {"GET"}, contentLength : BodySizes,
          urlPath : {<<"/", "static/", "app", ".js">>}]
    \cup [method : {"GET"}, contentLength : {0}, urlPath : BadPaths]
    \cup [method : {"POST"}, contentLength : {0, MaxBodySize + 1},
          urlPath : {<<"/", "static/", "app", ".js">>, <<"/", "../", "etc">>}]
    \cup [method : {"HEAD"}, contentLength : {MaxBodySize + 1},
          urlPath : {<<"/", "../", "etc">>}]

\* an entity tag that no response of the model carries
OtherTag == <<"dq", "0", "dq">>

\* what the client can send as If-None-Match: nothing, a foreign tag, or the
\* ETag header of the 200 response it received last
ClientTags ==
    {NoHeader, OtherTag} \cup (IF lastServe.status = 200 THEN {lastServe.etag} ELSE {})

InitPages ==
    /\ cfg \in [EnableVersioning : BOOLEAN, EnableWatcher : {FALSE}]
    /\ disk = [f \in PageFullPaths |-> PageBytes(f)]
    /\ fver = [f \in PageFullPaths |-> 0]
    /\ req = [r \in Reqs |-> IdleReq]
    /\ events = << >>
    /\ invalidated = [f \in PageFullPaths |-> 0]
    /\ lastServe = NoServe
    /\ lastAct = NoAct
    /\ nreq = 0
    /\ nwrites = 0
    /\ call = NoCall
    /\ tasks = StartedTasks(cfg.EnableWatcher)
    /\ callers = NoCallers
    /\ completed = << >>
    /\ strategy = "LRU"
    /\ cache = NewCache("LRU", ServerCacheSize, ServerCacheTTL)
    /\ now = 0
    /\ nops = 0
    /\ lastOp = NoOp
    /\ lastSet = [k \in Keys |-> NoEntry]
    /\ avm = IF cfg.EnableVersioning
             THEN ScanDirectory(NewAssetVersionManager(<<>>, 8, ""), PageWalkOrder, disk).avm
             ELSE NewAssetVersionManager(<<>>, 8, "")
    /\ registered = [p \in LogicalPaths |-> NoEntry]
    /\ lastReg = NoReg

NextPages ==
    \/ \E u \in PageURLs, ae \in AcceptEncodings, inm \in ClientTags :
          BeginRequest(1, u, ae, inm)
    \/ Lookup(1)
    \/ StatFile(1)
    \/ ReadFile(1)
    \/ RegisterRead(1)
    \/ Insert(1)
    \/ \E rq \in Requests : RejectRequest(1, rq.method, rq.contentLength, rq.urlPath)

SpecPages == InitPages /\ [][NextPages]_vars

(***************************************************************************)
(* The same client sending every Accept-Encoding the server distinguishes: *)
(* none, gzip, br, and both.                                               *)
(***************************************************************************)
EncodingHeaders == {<<>>, <<"gzip">>, <<"br">>, <<"gzip", "br">>}

NextEnc ==
    \/ \E u \in PageURLs, ae \in EncodingHeaders, inm \in ClientTags :
          BeginRequest(1, u, ae, inm)
    \/ Lookup(1)
    \/ StatFile(1)
    \/ ReadFile(1)
    \/ RegisterRead(1)
    \/ Insert(1)

SpecEnc == InitPages /\ [][NextEnc]_vars

(***************************************************************************)
(* The server configured with a small MaxFileSize, over files below, at    *)
(* and above the limit.                                                    *)
(***************************************************************************)
\* Config.MaxFileSize of this server, in bytes
SizeLimit == 2

SizeFiles == {<<"/", "static/", "app", ".js">>, <<"/", "hello", ".txt">>}

SizeFullPaths == {securePath(Root, p) : p \in SizeFiles}

\* file contents of SizeLimit - 1 to SizeLimit + 2 bytes
SizedContents == {[i \in 1..n |-> 1] : n \in (SizeLimit - 1)..(SizeLimit + 2)}

InitSize ==
    /\ cfg = [EnableVersioning |-> FALSE, EnableWatcher |-> FALSE, MaxFileSize |-> SizeLimit]
    /\ disk \in [SizeFullPaths -> SizedContents]
    /\ fver = [f \in SizeFullPaths |-> 0]
    /\ req = [r \in Reqs |-> IdleReq]
    /\ events = << >>
    /\ invalidated = [f \in SizeFullPaths |-> 0]
    /\ lastServe = NoServe
    /\ lastAct = NoAct
    /\ nreq = 0
    /\ nwrites = 0
    /\ call = NoCall
    /\ tasks = StartedTasks(cfg.EnableWatcher)
    /\ callers = NoCallers
    /\ completed = << >>
    /\ strategy = "LRU"
    /\ cache = NewCache("LRU", ServerCacheSize, ServerCacheTTL)
    /\ now = 0
    /\ nops = 0
    /\ lastOp = NoOp
    /\ lastSet = [k \in Keys |-> NoEntry]
    /\ avm = NewAssetVersionManager(<<>>, 8, "")
    /\ registered = [p \in LogicalPaths |-> NoEntry]
    /\ lastReg = NoReg

NextSize ==
    \/ \E u \in SizeFiles, ae \in AcceptEncodings : BeginRequest(1, u, ae, NoHeader)
    \/ Lookup(1)
    \/ StatFile(1)
    \/ ReadFile(1)
    \/ RegisterRead(1)
    \/ Insert(1)

SpecSize == InitSize /\ [][NextSize]_vars

(***************************************************************************)
(* TimeoutMiddleware.  callers[1] is the middleware, with the wrapped      *)
(* response writer (status, written), the header and body that reached     *)
(* the underlying writer (sent, body) and whether ctx.Done() is ready;     *)
(* callers[2] is the goroutine that runs next.ServeHTTP(wrapped, r).  When *)
(* the middleware returns, net/http finishes the response: with no header  *)
(* written it sends 200 and an empty body.  What the handler goroutine     *)
(* writes after that reaches nobody.                                       *)
(***************************************************************************)
\* statuses the wrapped handler answers with, and the sizes of its bodies
HandlerCodes == {200, 304, 404}
HandlerSizes == {0, 1}

\* the length of the body of http.Error(w, "Request timeout", 408)
TimeoutBody == 16

\* wrapResponseWriter(w): a responseWriter with status http.StatusOK
wrapResponseWriter == [status |-> 200, written |-> 0]

TimeoutFrame ==
    UNCHANGED <<cacheVars, indexVars, cfg, disk, fver, req, events, invalidated, lastAct,
                nwrites, call, tasks, completed>>

\* the middleware is called: context.WithTimeout, the wrapped writer, the
\* goroutine for next.ServeHTTP, and the select
TimeoutMiddleware(code, explicit, size) ==
    /\ callers[1].pc = "idle" /\ callers[2].pc = "idle"
    /\ nreq < MaxReqs
    /\ callers' = [callers EXCEPT
          ![1] = [pc |-> "select", status |-> wrapResponseWriter.status,
                  written |-> wrapResponseWriter.written,
                  expired |-> FALSE, sent |-> 0, body |-> 0],
          ![2] = [pc |-> "serving", code |-> code, explicit |-> explicit, size |-> size]]
    /\ nreq' = nreq + 1
    /\ lastServe' = NoServe
    /\ TimeoutFrame

\* the handler calls WriteHeader(code) on the wrapped writer
WriteHeader ==
    /\ callers[2].pc = "serving" /\ callers[2].explicit
    /\ callers' = [callers EXCEPT
          ![2].pc = "wroteHeader",
          ![1] = IF callers[1].pc = "select"
                 THEN [@ EXCEPT !.status = callers[2].code,
                                !.sent = IF @ = 0 THEN callers[2].code ELSE @]
                 ELSE @]
    /\ lastServe' = NoServe
    /\ UNCHANGED nreq
    /\ TimeoutFrame

\* the handler calls Write(b) on the wrapped writer; the first write to the
\* underlying writer sends the header 200 if none was sent
Write ==
    /\ \/ callers[2].pc = "serving" /\ ~callers[2].explicit
       \/ callers[2].pc = "wroteHeader"
    /\ callers[2].size > 0
    /\ callers' = [callers EXCEPT
          ![2].pc = "wrote",
          ![1] = IF callers[1].pc = "select"
                 THEN [@ EXCEPT !.written = @ + callers[2].size,
                                !.sent = IF @ = 0 THEN 200 ELSE @,
                                !.body = @ + callers[2].size]
                 ELSE @]
    /\ lastServe' = NoServe
    /\ UNCHANGED nreq
    /\ TimeoutFrame

\* next.ServeHTTP returns and the goroutine closes done
HandlerReturn ==
    /\ \/ callers[2].pc = "wrote"
       \/ callers[2].pc = "wroteHeader" /\ callers[2].size = 0
       \/ callers[2].pc = "serving" /\ ~callers[2].explicit /\ callers[2].size = 0
    /\ callers' = [callers EXCEPT
          ![2] = IF callers[1].pc = "select" THEN [@ EXCEPT !.pc = "done"] ELSE IdleCaller]
    /\ lastServe' = NoServe
    /\ UNCHANGED nreq
    /\ TimeoutFrame

\* the deadline of the request's context passes
DeadlineExpires ==
    /\ callers[1].pc = "select" /\ ~callers[1].expired
    /\ callers' = [callers EXCEPT ![1].expired = TRUE]
    /\ lastServe' = NoServe
    /\ UNCHANGED nreq
    /\ TimeoutFrame

\* the response the client receives once the middleware has returned
Finished(mw, via, handlerWrote) ==
    [status |-> IF mw.sent = 0 THEN 200 ELSE mw.sent, body |-> mw.body,
     via |-> via, handlerWrote |-> handlerWrote]

\* select takes case <-done
SelectDone ==
    /\ callers[1].pc = "select" /\ callers[2].pc = "done"
    /\ lastServe' = Finished(callers[1], "done", callers[1].sent # 0)
    /\ callers' = NoCallers
    /\ UNCHANGED nreq
    /\ TimeoutFrame

\* select takes case <-ctx.Done(): http.Error with 408 if wrapped.status is 0
SelectTimeout ==
    /\ callers[1].pc = "select" /\ callers[1].expired
    /\ LET mw == callers[1]
           answered == IF mw.status = 0 /\ mw.sent = 0
                       THEN [mw EXCEPT !.sent = 408, !.body = TimeoutBody]
                       ELSE mw
       IN lastServe' = Finished(answered, "timeout", mw.sent # 0)
    /\ callers' = [callers EXCEPT ![1] = IdleCaller,
                                  ![2] = IF @.pc = "done" THEN IdleCaller ELSE @]
    /\ UNCHANGED nreq
    /\ TimeoutFrame

NextTimeout ==
    \/ \E code \in HandlerCodes, explicit \in BOOLEAN, size \in HandlerSizes :
          TimeoutMiddleware(code, explicit, size)
    \/ WriteHeader
    \/ Write
    \/ HandlerReturn
    \/ DeadlineExpires
    \/ SelectDone
    \/ SelectTimeout

\* the server at rest: no request has reached the middleware
InitTimeout == IdleCache /\ IdleIndex /\ IdleServer

SpecTimeout == InitTimeout /\ [][NextTimeout]_vars

(***************************************************************************)
(* The server with the manual invalidator answering one client that asks   *)
(* for a directory and for its index file, while the embedder rewrites the *)
(* index file and invalidates its path between the requests.               *)
(***************************************************************************)
\* the files under the root, by URL path: the index file of the root
DirFiles == {<<"/">> \o IndexFile}

DirFullPaths == {securePath(Root, p) : p \in DirFiles}

\* the URLs of the directories that hold an index file
DirURLs == {SubSeq(p, 1, Len(p) - Len(IndexFile)) : p \in DirFiles}

InitDir ==
    /\ cfg = [EnableVersioning |-> FALSE, EnableWatcher |-> FALSE]
    /\ disk = [f \in DirFullPaths |-> <<1>>]
    /\ fver = [f \in DirFullPaths |-> 0]
    /\ req = [r \in Reqs |-> IdleReq]
    /\ events = << >>
    /\ invalidated = [f \in DirFullPaths |-> 0]
    /\ lastServe = NoServe
    /\ lastAct = NoAct
    /\ nreq = 0
    /\ nwrites = 0
    /\ call = NoCall
    /\ tasks = StartedTasks(cfg.EnableWatcher)
    /\ callers = NoCallers
    /\ completed = << >>
    /\ strategy = "LRU"
    /\ cache = NewCache("LRU", ServerCacheSize, ServerCacheTTL)
    /\ now = 0
    /\ nops = 0
    /\ lastOp = NoOp
    /\ lastSet = [k \in Keys |-> NoEntry]
    /\ avm = NewAssetVersionManager(<<>>, 8, "")
    /\ registered = [p \in LogicalPaths |-> NoEntry]
    /\ lastReg = NoReg

\* no request is in flight
AtRest == \A r \in Reqs : req[r].pc = "idle"

NextDir ==
    \/ \E u \in DirURLs \cup DirFiles, ae \in AcceptEncodings : BeginRequest(1, u, ae, NoHeader)
    \/ Lookup(1)
    \/ StatFile(1)
    \/ ReadFile(1)
    \/ RegisterRead(1)
    \/ Insert(1)
    \/ \E f \in DirFullPaths, c \in Contents : AtRest /\ WriteFile(f, c)
    \/ \E f \in DirFullPaths : AtRest /\ RemoveFile(f)
    \/ \E p \in DirFiles : AtRest /\ InvalidatePath(p)

SpecDir == InitDir /\ [][NextDir]_vars

(***************************************************************************)
(* The lifetime of the server: requests while it runs, the clock, the     *)
(* sweeper of the store, Server.Stop, and the exit of the watch goroutine. *)
(***************************************************************************)
InitLife ==
    /\ cfg \in [EnableVersioning : {FALSE}, EnableWatcher : BOOLEAN]
    /\ disk = [f \in FullPaths |-> <<1>>]
    /\ fver = [f \in FullPaths |-> 0]
    /\ req = [r \in Reqs |-> IdleReq]
    /\ events = << >>
    /\ invalidated = [f \in FullPaths |-> 0]
    /\ lastServe = NoServe
    /\ lastAct = NoAct
    /\ nreq = 0
    /\ nwrites = 0
    /\ call = NoCall
    /\ tasks = StartedTasks(cfg.EnableWatcher)
    /\ callers = NoCallers
    /\ completed = << >>
    /\ strategy = "LRU"
    /\ cache = NewCache("LRU", ServerCacheSize, CacheTTL)
    /\ now = 0
    /\ nops = 0
    /\ lastOp = NoOp
    /\ lastSet = [k \in Keys |-> NoEntry]
    /\ avm = NewAssetVersionManager(<<>>, 8, "")
    /\ registered = [p \in LogicalPaths |-> NoEntry]
    /\ lastReg = NoReg

\* the listener hands a GET to serveFile while the server runs
Accept(urlPath, acceptEncoding) ==
    /\ tasks.server = "running"
    /\ BeginRequest(1, urlPath, acceptEncoding, NoHeader)

\* time passes
Elapse ==
    /\ Tick
    /\ UNCHANGED <<indexVars, serverVars>>

\* one tick of the ticker of LRUCache.cleanupExpired, whose loop has no exit
SweeperTick ==
    /\ tasks.sweeper = "running"
    /\ CleanupExpired
    /\ UNCHANGED <<indexVars, serverVars>>

\* a panic that leaves Stop: the caller sees no return value
Panicked == [act |-> "panic", file |-> <<>>]

\* FileWatcher.Stop: close(fw.stopChan), which panics on a closed channel, then
\* the fsnotify watcher is closed and its undelivered events are dropped;
\* ManualInvalidator.Stop returns nil
InvalidatorStop(t) ==
    IF t.stopChan = "open" THEN [t EXCEPT !.stopChan = "closed"] ELSE t

\* Server.Stop called when no request is in flight: close(s.shutdown), which
\* panics on a closed channel, then invalidator.Stop(), then
\* httpServer.Shutdown, which returns at once
ServerStop ==
    /\ \A r \in Reqs : req[r].pc = "idle"
    /\ IF tasks.shutdown = "closed"
       THEN /\ lastAct' = Panicked
            /\ UNCHANGED <<tasks, events>>
       ELSE IF tasks.stopChan = "closed"
       THEN /\ tasks' = [tasks EXCEPT !.shutdown = "closed"]
            /\ lastAct' = Panicked
            /\ UNCHANGED events
       ELSE /\ tasks' = [InvalidatorStop(tasks) EXCEPT !.server = "stopped",
                                                       !.shutdown = "closed"]
            /\ events' = << >>
            /\ lastAct' = [act |-> "stop", file |-> <<>>]
    /\ lastServe' = NoServe
    /\ UNCHANGED <<cacheVars, indexVars, cfg, disk, fver, req, invalidated, nreq, nwrites,
                   call, callers, completed>>

\* Server.Stop of the running server
Stop ==
    /\ tasks.server = "running"
    /\ ServerStop

\* FileWatcher.watch takes the stopChan case of its select and returns
WatcherExit ==
    /\ tasks.watcher = "running"
    /\ tasks.stopChan = "closed"
    /\ tasks' = [tasks EXCEPT !.watcher = "done"]
    /\ lastAct' = NoAct
    /\ lastServe' = NoServe
    /\ UNCHANGED <<cacheVars, indexVars, cfg, disk, fver, req, events, invalidated, nreq,
                   nwrites, call, callers, completed>>

NextLife ==
    \/ \E u \in URLs, ae \in AcceptEncodings : Accept(u, ae)
    \/ Lookup(1)
    \/ StatFile(1)
    \/ ReadFile(1)
    \/ RegisterRead(1)
    \/ Insert(1)
    \/ Elapse
    \/ SweeperTick
    \/ Stop
    \/ WatcherExit

SpecLife == InitLife /\ [][NextLife]_vars

(***************************************************************************)
(* Start and Stop called in any order and any number of times, on the      *)
(* server and on its invalidator.                                          *)
(***************************************************************************)
InitStop ==
    /\ cfg \in [EnableVersioning : {FALSE}, EnableWatcher : BOOLEAN]
    /\ disk = [f \in FullPaths |-> <<1>>]
    /\ fver = [f \in FullPaths |-> 0]
    /\ req = [r \in Reqs |-> IdleReq]
    /\ events = << >>
    /\ invalidated = [f \in FullPaths |-> 0]
    /\ lastServe = NoServe
    /\ lastAct = NoAct
    /\ nreq = 0
    /\ nwrites = 0
    /\ call = NoCall
    /\ tasks = NewTasks(cfg.EnableWatcher)
    /\ callers = NoCallers
    /\ completed = << >>
    /\ strategy = "LRU"
    /\ cache = NewCache("LRU", ServerCacheSize, CacheTTL)
    /\ now = 0
    /\ nops = 0
    /\ lastOp = NoOp
    /\ lastSet = [k \in Keys |-> NoEntry]
    /\ avm = NewAssetVersionManager(<<>>, 8, "")
    /\ registered = [p \in LogicalPaths |-> NoEntry]
    /\ lastReg = NoReg

\* Server.Start of a server that was never started or stopped: invalidator.Start
\* starts the watch goroutine of a configured watcher, then the listener starts
Start ==
    /\ tasks.server = "new"
    /\ tasks.shutdown = "open"
    /\ tasks.stopChan # "closed"
    /\ tasks' = [tasks EXCEPT !.server = "running",
                              !.watcher = IF cfg.EnableWatcher THEN "running" ELSE @]
    /\ lastAct' = [act |-> "start", file |-> <<>>]
    /\ lastServe' = NoServe
    /\ UNCHANGED <<cacheVars, indexVars, cfg, disk, fver, req, events, invalidated, nreq,
                   nwrites, call, callers, completed>>

\* Stop of the invalidator called by its owner
StopInvalidator ==
    /\ IF tasks.stopChan = "closed"
       THEN /\ lastAct' = Panicked
            /\ UNCHANGED <<tasks, events>>
       ELSE /\ tasks' = InvalidatorStop(tasks)
            /\ events' = << >>
            /\ lastAct' = [act |-> "stopInvalidator", file |-> <<>>]
    /\ lastServe' = NoServe
    /\ UNCHANGED <<cacheVars, indexVars, cfg, disk, fver, req, invalidated, nreq, nwrites,
                   call, callers, completed>>

NextStop ==
    \/ Start
    \/ \E u \in URLs, ae \in AcceptEncodings : Accept(u, ae)
    \/ Lookup(1)
    \/ StatFile(1)
    \/ ReadFile(1)
    \/ RegisterRead(1)
    \/ Insert(1)
    \/ ServerStop
    \/ StopInvalidator
    \/ WatcherExit

SpecStop == InitStop /\ [][NextStop]_vars

(***************************************************************************)
(* One encoder with its pools: Compress called by concurrent callers, each *)
(* call a sequence of steps on a pooled buffer and a pooled writer.        *)
(***************************************************************************)
\* calls of Compress begun in one run
MaxCompress == 3

\* NewGzipCompressor, NewBrotliCompressor: both pools empty.  buffers and
\* writers are the objects the pools' New functions have made so far
NewCompressor(enc) ==
    [fn |-> "Compress", enc |-> enc, buffers |-> <<>>, bufferPool |-> {},
     writers |-> <<>>, writerPool |-> {}, begun |-> 0]

\* new(bytes.Buffer)
NewBuffer == [array |-> <<>>, len |-> 0]

\* buf.Bytes(): the written part of the backing array
BufferBytes(buf) == SubSeq(buf.array, 1, buf.len)

\* buf.Write(p): p lands behind the written part, over what the array held
BufferWrite(buf, p) ==
    [array |-> (BufferBytes(buf) \o p)
                  \o SubSeq(buf.array, buf.len + Len(p) + 1, Len(buf.array)),
     len |-> buf.len + Len(p)]

\* buf.Reset(): the length is zero, the backing array is kept
BufferReset(buf) == [buf EXCEPT !.len = 0]

\* a slice that shares the backing array of buffer b
CopyResult_Alias(buffers, b) == [buf |-> b, array |-> <<>>, len |-> buffers[b].len]

\* result := make([]byte, buf.Len()); copy(result, buf.Bytes())
CopyResult(buffers, b) ==
    [buf |-> 0, array |-> BufferBytes(buffers[b]), len |-> buffers[b].len]

\* the bytes a reader of the slice sees now
SliceBytes(slice, buffers) ==
    IF slice.buf = 0 THEN slice.array ELSE SubSeq(buffers[slice.buf].array, 1, slice.len)

NoSlice == [buf |-> 0, array |-> <<>>, len |-> 0]

InitPool ==
    /\ IdleCache /\ IdleIndex
    /\ cfg = [EnableVersioning |-> FALSE, EnableWatcher |-> FALSE]
    /\ disk = << >>
    /\ fver = << >>
    /\ req = << >>
    /\ events = << >>
    /\ invalidated = << >>
    /\ lastServe = NoServe
    /\ lastAct = NoAct
    /\ nreq = 0
    /\ nwrites = 0
    /\ call \in {NewCompressor(enc) : enc \in {"gzip", "br"}}
    /\ tasks = NoTasks
    /\ callers = NoCallers
    /\ completed = << >>

PoolFrame ==
    UNCHANGED <<cacheVars, indexVars, cfg, disk, fver, req, events, invalidated, lastServe,
                lastAct, nreq, nwrites, tasks>>

\* Compress up to bufferPool.Get(): the pool hands out one of the buffers put
\* back, or makes a new one
CompressBegin(c, data) ==
    /\ callers[c].pc = "idle"
    /\ call.begun < MaxCompress
    /\ \E b \in call.bufferPool \cup {Len(call.buffers) + 1} :
          /\ call' = [call EXCEPT
                        !.buffers = IF b > Len(@) THEN Append(@, NewBuffer) ELSE @,
                        !.bufferPool = @ \ {b},
                        !.begun = @ + 1]
          /\ callers' = [callers EXCEPT ![c] = [pc |-> "buf", data |-> data, buf |-> b,
                                                writer |-> 0, result |-> NoSlice]]
    /\ UNCHANGED completed
    /\ PoolFrame

\* writerPool.Get(), one of the writers put back or a new one, and gw.Reset(buf)
WriterReset(c) ==
    /\ callers[c].pc = "buf"
    /\ \E w \in call.writerPool \cup {Len(call.writers) + 1} :
          /\ call' = [call EXCEPT
                        !.writers = IF w > Len(@) THEN Append(@, callers[c].buf)
                                    ELSE [@ EXCEPT ![w] = callers[c].buf],
                        !.writerPool = @ \ {w}]
          /\ callers' = [callers EXCEPT ![c].pc = "writer", ![c].writer = w]
    /\ UNCHANGED completed
    /\ PoolFrame

\* gw.Write(data) and gw.Close(): the encoded bytes go to the buffer the writer
\* was reset to
WriterClose(c) ==
    /\ callers[c].pc = "writer"
    /\ LET b == call.writers[callers[c].writer] IN
       call' = [call EXCEPT !.buffers[b] = BufferWrite(@, Compress(call.enc, callers[c].data))]
    /\ callers' = [callers EXCEPT ![c].pc = "written"]
    /\ UNCHANGED completed
    /\ PoolFrame

\* the result is taken from the buffer
CopyBytes(c) ==
    /\ callers[c].pc = "written"
    /\ callers' = [callers EXCEPT ![c].pc = "copied",
                                  ![c].result = CopyResult(call.buffers, callers[c].buf)]
    /\ UNCHANGED <<call, completed>>
    /\ PoolFrame

\* return result, nil, and the deferred calls: writerPool.Put(gw), buf.Reset(),
\* bufferPool.Put(buf)
CompressReturn(c) ==
    /\ callers[c].pc = "copied"
    /\ call' = [call EXCEPT !.writerPool = @ \cup {callers[c].writer},
                            !.buffers[callers[c].buf] = BufferReset(@),
                            !.bufferPool = @ \cup {callers[c].buf}]
    /\ completed' = Append(completed, [caller |-> c, data |-> callers[c].data,
                                       buf |-> callers[c].buf,
                                       result |-> callers[c].result])
    /\ callers' = [callers EXCEPT ![c] = IdleCaller]
    /\ PoolFrame

NextPool ==
    \/ \E c \in Callers, d \in DataVals : CompressBegin(c, d)
    \/ \E c \in Callers : WriterReset(c)
    \/ \E c \in Callers : WriterClose(c)
    \/ \E c \in Callers : CopyBytes(c)
    \/ \E c \in Callers : CompressReturn(c)

SpecPool == InitPool /\ [][NextPool]_vars

(***************************************************************************)
(* The pure steps of the pipeline, each applied to inputs of its own.      *)
(***************************************************************************)
\* what a call of a pure function leaves alone
\* the functions below keep no state: a behaviour is one call, recorded in call
PureFrame ==
    UNCHANGED <<cacheVars, indexVars, cfg, disk, fver, req, events, invalidated, lastServe,
                lastAct, nreq, nwrites, tasks, callers, completed>>

\* file names asked for, by logical path
HeaderFiles == {<<"/", "static/", "app", ".js">>,
                <<"/", "static/", "jquery", ".min", ".js">>,
                <<"/", "static/", "APP", ".JS">>,
                <<"/", "static/", "style", ".css">>,
                <<"/", "assets/", "logo", ".png">>,
                <<"/", "index", ".html">>,
                <<"/", "hello", ".txt">>,
                <<"/", "doc", ".pdf">>}

\* the Cache-Control header set by serveFromCache (hit) and by
\* serveFileWithCompression (miss) for a request on the logical path of a
\* file or, if versioned, on the versioned path of its content
CacheControlHeader(file, content, versioned, hit) ==
    /\ call = NoCall
    /\ versioned => shouldVersionFile(file)
    /\ LET urlPath == IF versioned
                      THEN GenerateVersionedPath(NewAssetVersionManager(<<>>, 8, ""),
                                                 file, content).path
                      ELSE file
       IN call' = [fn |-> "getCacheControl", urlPath |-> urlPath, isVersioned |-> versioned,
                   hit |-> hit, out |-> getCacheControl(urlPath, versioned)]
    /\ PureFrame

\* URLs of a document: a script, a font, and a file named like the versioned
\* path of the script
HTMLUrls == {<<"/", "static/", "a", ".js">>,
             <<"/", "static/", "font", ".eot">>,
             GenerateVersionedPath(NewAssetVersionManager(<<>>, 8, ""),
                                   <<"/", "static/", "a", ".js">>, <<1>>).path}

HTMLAttrs == [name : {"href", "src", "data-src", "action"}, quote : {"dq", "sq"},
              url : HTMLUrls]

\* documents of one tag with one or two attributes
HTMLDocs == {<<<<x>>>> : x \in HTMLAttrs}
            \cup {<<<<x, y>>>> : x \in HTMLAttrs, y \in [name : {"href", "src"}, quote : {"dq"}, url : HTMLUrls]}

\* the index after registering the files of reg, a function from URLs to
\* their bytes, <<>> for a file that is not registered
RECURSIVE RegisterAll(_, _, _)
RegisterAll(a, reg, todo) ==
    IF todo = {} THEN a
    ELSE LET p == CHOOSE x \in todo : TRUE IN
         RegisterAll(IF reg[p] = <<>> THEN a ELSE RegisterAsset(a, p, reg[p]),
                     reg, todo \ {p})

\* HTMLProcessor.ProcessHTML on a document, and on its own output
RewriteHTML(reg, enabled, content) ==
    /\ call = NoCall
    /\ LET a == RegisterAll(NewAssetVersionManager(<<>>, 8, ""), reg, HTMLUrls)
           once == ProcessHTML(a, enabled, content)
       IN call' = [fn |-> "ProcessHTML", index |-> a, enabled |-> enabled,
                   content |-> content, out |-> once,
                   again |-> ProcessHTML(a, enabled, once)]
    /\ PureFrame

\* Accept-Encoding headers
AcceptHeaders == {<<>>, <<"gzip">>, <<"br">>, <<"*">>, <<"deflate">>, <<"GZIP">>,
                  <<"br", ", ", "gzip">>, <<"gzip", ", ", "deflate">>,
                  <<"deflate", ", ", "BR">>, <<"x-", "gzip">>, <<"identity">>}

\* Config.Compression values
Compressions == SUBSET {"gzip", "br"}

\* CompressionManager.GetCompressor on a header
SelectEncoding(compression, acceptEncoding) ==
    /\ call = NoCall
    /\ call' = [fn |-> "GetCompressor", compression |-> compression,
                acceptEncoding |-> acceptEncoding,
                out |-> GetCompressor(compression, acceptEncoding)]
    /\ PureFrame

\* errors: kind is the ErrorType of a *ServerError, "plain" for any other error
\* value; cause is the wrapped error (of a plain error: the error itself):
\* ErrTimeout, an error whose Temporary() is true or false, any other error, nil
ErrorKinds == {"plain", "Validation", "NotFound", "Permission", "ServerError", "Timeout",
               "Security"}

ErrorCauses == {"nil", "ErrTimeout", "temporary", "permanent", "other"}

Errors == {e \in [kind : ErrorKinds, cause : ErrorCauses] :
              e.kind = "plain" => e.cause # "nil"}

NilError == [kind |-> "nil", cause |-> "nil"]

isRetryableError(err) ==
    IF err.kind \in {"Validation", "Permission", "Security"} THEN FALSE
    ELSE IF err.cause = "ErrTimeout" THEN TRUE
    ELSE IF err.kind = "plain" /\ err.cause \in {"temporary", "permanent"}
    THEN err.cause = "temporary"
    ELSE FALSE

\* the backoff of the next wait, in milliseconds, never doubled
NextBackoff_NoDoubling(backoff) == backoff

\* backoff *= 2, capped at 5 s
NextBackoff(backoff) ==
    IF backoff * 2 > 5000 THEN 5000 ELSE backoff * 2

\* the loop of RetryOperation from iteration i on; op(k) is the result of the
\* k-th call of op, sleeps the waits made so far
RECURSIVE RetryLoop(_, _, _, _, _, _)
RetryLoop(op, maxRetries, i, backoff, sleeps, lastErr) ==
    IF i > maxRetries
    THEN [err |-> [kind |-> "Retryable", cause |-> lastErr.cause], attempts |-> i,
          sleeps |-> sleeps]
    ELSE LET err == op[i + 1] IN
         IF err = NilError THEN [err |-> NilError, attempts |-> i + 1, sleeps |-> sleeps]
         ELSE IF ~isRetryableError(err)
         THEN [err |-> err, attempts |-> i + 1, sleeps |-> sleeps]
         ELSE IF i < maxRetries
         THEN RetryLoop(op, maxRetries, i + 1, NextBackoff(backoff),
                        Append(sleeps, backoff), err)
         ELSE RetryLoop(op, maxRetries, i + 1, backoff, sleeps, err)

RetryOperation(op, maxRetries) == RetryLoop(op, maxRetries, 0, 100, <<>>, NilError)

\* the largest maxRetries tried: the seventh wait is the first that is capped
MaxRetriesTried == 7

\* maxRetries of the retried file read of the invalidator: 3 attempts
FileReadRetries == 2

\* an operation that fails n times with err and then returns next
Failing(err, n, next) ==
    [k \in 1..(MaxRetriesTried + 1) |-> IF k <= n THEN err ELSE next]

\* RetryOperation on an operation and a number of retries
Retry(err, n, next, maxRetries) ==
    /\ call = NoCall
    /\ call' = [fn |-> "RetryOperation", err |-> err, n |-> n, next |-> next,
                maxRetries |-> maxRetries,
                out |-> RetryOperation(Failing(err, n, next), maxRetries)]
    /\ PureFrame

\* ---- Config: the hash-length option, Validate, and New ----

\* lengths handed to WithVersionHashLength
MaxHashLengthTried == 18
OptionLengths == 0..MaxHashLengthTried

DefaultVersionHashLength == 8

\* WithVersionHashLength: the option clamps the length into [4,16]
WithVersionHashLength(length) ==
    IF length < 4 THEN 4
    ELSE IF length > 16 THEN 16
    ELSE length

\* Config.Validate, the hash-length checks: "nil" or the error
Validate(versionHashLength) ==
    IF versionHashLength < 4 \/ versionHashLength > 16 THEN "range"
    ELSE IF versionHashLength % 2 # 0 THEN "odd"
    ELSE "nil"

\* New(WithVersionHashLength(length)): the options are applied to the default
\* configuration and the server is built from it; Validate is not called
NewWithHashLength(length) ==
    LET config == [VersionHashLength |-> WithVersionHashLength(length)]
    IN  [err |-> "nil", hashLength |-> config.VersionHashLength]

New(length) ==
    /\ call = NoCall
    /\ call' = [fn |-> "New", length |-> length, out |-> NewWithHashLength(length)]
    /\ PureFrame

\* a caller runs Validate on a configuration it filled in itself
ValidateConfig(length) ==
    /\ call = NoCall
    /\ call' = [fn |-> "Validate", length |-> length, out |-> Validate(length)]
    /\ PureFrame

\* ---- the scan New makes with versioning on ----
\* the files of the root in the order filepath.Walk visits them
ScanFiles == <<<<Root, "/", "index", ".html">>,
               <<Root, "/", "static/", "a", ".css">>,
               <<Root, "/", "static/", "a", ".js">>,
               <<Root, "/", "static/", "b", ".js">>>>

\* what the disk may hold at the time of the scan
ScanDisks == [{ScanFiles[i] : i \in 1..Len(ScanFiles)} -> {<<1>>, <<2>>, Absent, Unreadable}]

\* New with EnableVersioning: ScanDirectory(config.Root), whose error New
\* returns in place of the server
NewScan(d) ==
    /\ call = NoCall
    /\ LET scan == ScanDirectory(NewAssetVersionManager(<<>>, 8, ""), ScanFiles, d) IN
       call' = [fn |-> "NewScan", disk |-> d, avm |-> scan.avm, err |-> scan.err]
    /\ PureFrame

InitPure == IdleCache /\ IdleIndex /\ IdleServer

NextPure ==
    \/ \E length \in OptionLengths : New(length)
    \/ \E length \in OptionLengths : ValidateConfig(length)
    \/ \E d \in ScanDisks : NewScan(d)
    \/ \E f \in HeaderFiles, c \in Contents, v \in BOOLEAN, h \in BOOLEAN :
          CacheControlHeader(f, c, v, h)
    \/ \E cm \in Compressions, ae \in AcceptHeaders : SelectEncoding(cm, ae)
    \/ \E reg \in [HTMLUrls -> Contents \cup {<<>>}], en \in BOOLEAN, h \in HTMLDocs :
          RewriteHTML(reg, en, h)
    \/ \E e \in Errors, n \in 0..(MaxRetriesTried + 1),
          nx \in {NilError, [kind |-> "Permission", cause |-> "other"]},
          mr \in 0..MaxRetriesTried :
          Retry(e, n, nx, mr)

\* the pure steps under arbitrary inputs
SpecPure == InitPure /\ [][NextPure]_vars

(***************************************************************************)
(* Specifications.                                                         *)
(***************************************************************************)
\* the store under a client
Init == InitCache /\ IdleIndex /\ IdleServer

Next ==
    \/ \E k \in Keys : Get(k) /\ UNCHANGED <<indexVars, serverVars>>
    \/ \E k \in Keys, d \in DataVals, s \in EntrySizes :
          Set(k, d, s) /\ UNCHANGED <<indexVars, serverVars>>
    \/ \E k \in Keys : Delete(k) /\ UNCHANGED <<indexVars, serverVars>>
    \/ Clear /\ UNCHANGED <<indexVars, serverVars>>
    \/ Stats /\ UNCHANGED <<indexVars, serverVars>>
    \/ CleanupExpired /\ UNCHANGED <<indexVars, serverVars>>
    \/ Tick /\ UNCHANGED <<indexVars, serverVars>>

Spec == Init /\ [][Next]_vars

\* ---- the store after a warm-up: one entry of size 1 per key, set in the
\* order of WarmKeys ----
WarmKeys == <<"k1", "k2", "k3">>

RECURSIVE Warmed(_, _, _)
Warmed(strat, c, keys) ==
    IF keys = <<>> THEN c
    ELSE Warmed(strat,
                CacheSet(strat, c, Head(keys),
                         [Data |-> <<1>>, Size |-> 1, CreatedAt |-> 0, AccessCount |-> 0], 0),
                Tail(keys))

InitWarm ==
    /\ strategy \in Strategies
    /\ cache = Warmed(strategy, NewCache(strategy, CacheSize, CacheTTL), WarmKeys)
    /\ now = 0
    /\ nops = 0
    /\ lastOp = [NoOp EXCEPT !.order = WarmKeys]
    /\ lastSet = [k \in Keys |-> NoEntry]
    /\ IdleIndex /\ IdleServer

SpecWarm == InitWarm /\ [][Next]_vars

(***************************************************************************)
(* The store and its sweeper on the clock.  NewLRUCache and NewLFUCache    *)
(* start cleanupExpired, whose ticker fires every ttl / 2 from the time of *)
(* construction; the clock cannot pass an instant of the ticker without    *)
(* the pass of the sweeper at that instant.  The client sets and deletes   *)
(* and never looks a key up.                                               *)
(***************************************************************************)
\* TTL handed to the store on the clock, in clock ticks
SweepTTL == 4
\* last value of the clock: an entry set after the first pass is swept too
MaxSweepTime == 2 * SweepTTL + 1

\* a ticker of the whole TTL
SweepInterval_WholeTTL(ttl) == ttl

\* time.NewTicker(c.ttl / 2)
SweepInterval(ttl) == ttl \div 2

\* keys and sizes the client of the swept store uses
SweepKeys == {"k1", "k2"}
SweepSizes == {1, CacheSize - 1}

InitSweep ==
    /\ strategy \in Strategies
    /\ cache = NewCache(strategy, CacheSize, SweepTTL)
    /\ now = 0
    /\ nops = 0
    /\ lastOp = NoOp
    /\ lastSet = [k \in Keys |-> NoEntry]
    /\ IdleIndex /\ IdleServer

\* the clock advances to an instant at which the ticker does not fire
SweepElapse ==
    /\ now < MaxSweepTime
    /\ (now + 1) % SweepInterval(cache.ttl) # 0
    /\ now' = now + 1
    /\ UNCHANGED <<strategy, cache, nops, lastOp, lastSet, indexVars, serverVars>>

\* the clock reaches an instant of the ticker and cleanupExpired makes its
\* pass under c.mu.Lock; lastOp.ok tells whether the pass removed an entry
TickerFires ==
    /\ now < MaxSweepTime
    /\ (now + 1) % SweepInterval(cache.ttl) = 0
    /\ now' = now + 1
    /\ \/ /\ strategy = "LRU"
          /\ cache' = LRUcleanupExpired(cache, now')
       \/ /\ strategy = "LFU"
          /\ \E o \in MapOrders(HeldKeys(cache)) : cache' = LFUsweep(cache, o, now')
    /\ lastOp' = [NoOp EXCEPT !.op = "Sweep", !.at = now', !.ok = (cache' # cache),
                              !.order = InsertionOrder(lastOp.order, cache')]
    /\ lastSet' = [k \in Keys |-> NoEntry]
    /\ UNCHANGED <<strategy, nops, indexVars, serverVars>>

NextSweep ==
    \/ \E k \in SweepKeys, s \in SweepSizes :
          Set(k, <<1>>, s) /\ UNCHANGED <<indexVars, serverVars>>
    \/ \E k \in SweepKeys : Delete(k) /\ UNCHANGED <<indexVars, serverVars>>
    \/ SweepElapse
    \/ TickerFires

SpecSweep == InitSweep /\ [][NextSweep]_vars

(***************************************************************************)
(* The store holding as many entries as the embedded lru.Cache has room    *)
(* for, of one byte each, with bytes to spare in the budget.               *)
(***************************************************************************)
\* the keys set before the client starts, oldest first
FullKeys == [i \in 1..LRUCapacity |-> ToString(i)]

\* Config.CacheSize of the full store: room for every entry and CacheSize more
FullBudget == LRUCapacity + CacheSize

\* keys the client of the full store uses: new ones, the oldest, the newest
ClientKeys == Keys \cup {FullKeys[1], FullKeys[LRUCapacity]}

\* the store after one Set of a fresh one-byte entry for each key, in order, at time 0
Filled(strat, c, keys) ==
    LET e == [Data |-> <<1>>, Size |-> 1, CreatedAt |-> 0, AccessCount |-> 0] IN
    [c EXCEPT !.items = [i \in 1..Len(keys) |->
                            IF strat = "LFU"
                            THEN [key |-> keys[i], entry |-> e, freq |-> 1]
                            ELSE [key |-> keys[i], entry |-> e]],
              !.currentSize = Len(keys)]

InitFull ==
    /\ strategy \in Strategies
    /\ cache = Filled(strategy, NewCache(strategy, FullBudget, CacheTTL), FullKeys)
    /\ now = 0
    /\ nops = 0
    /\ lastOp = [NoOp EXCEPT !.order = FullKeys]
    /\ lastSet = [k \in Keys |-> NoEntry]
    /\ IdleIndex /\ IdleServer

NextFull ==
    \/ \E k \in ClientKeys : Get(k) /\ UNCHANGED <<indexVars, serverVars>>
    \/ \E k \in Keys : Set(k, <<1>>, 1) /\ UNCHANGED <<indexVars, serverVars>>
    \/ \E k \in ClientKeys : Delete(k) /\ UNCHANGED <<indexVars, serverVars>>
    \/ Clear /\ UNCHANGED <<indexVars, serverVars>>

SpecFull == InitFull /\ [][NextFull]_vars

(***************************************************************************)
(* The store and a client that keeps the pointers it exchanged with it.    *)
(* Get returns the *CacheEntry the store holds and Set stores the pointer  *)
(* it is handed, so the object behind lastOp.key is the held entry as long *)
(* as no other operation came between.                                     *)
(***************************************************************************)
\* the caller writes entry.Data through the pointer returned by the Get, or
\* passed to the Set, just before; lastOp keeps the entry as the store held it
MutateEntry(data) ==
    /\ nops < MaxOps
    /\ lastOp.op \in {"Get", "Set"}
    /\ lastOp.ok
    /\ lastOp.key \in HeldKeys(cache)
    /\ LET i == PosOf(cache.items, lastOp.key) IN
       /\ cache.items[i].entry.Data # data
       /\ cache' = [cache EXCEPT !.items[i].entry.Data = data]
       /\ lastOp' = [NoOp EXCEPT !.op = "Mutate", !.key = lastOp.key,
                                 !.entry = cache.items[i].entry, !.at = now,
                                 !.order = lastOp.order]
    /\ lastSet' = [k \in Keys |-> NoEntry]
    /\ nops' = nops + 1
    /\ UNCHANGED <<strategy, now>>

NextAlias ==
    \/ Next
    \/ \E d \in DataVals : MutateEntry(d) /\ UNCHANGED <<indexVars, serverVars>>

SpecAlias == Init /\ [][NextAlias]_vars

(***************************************************************************)
(* The store called by several goroutines.  Set, Delete, Clear and the     *)
(* Get of LFUCache take c.mu.Lock and run alone; the Get of LRUCache and   *)
(* Stats take c.mu.RLock and run in steps next to other readers.  An       *)
(* unsynchronised x++ or x -= n of a reader is a load and a store.         *)
(***************************************************************************)
\* what the callers of the store leave alone
ConcFrame ==
    UNCHANGED <<strategy, now, lastSet, indexVars, cfg, disk, fver, req, events, invalidated,
                lastServe, lastAct, nreq, nwrites, call, tasks>>

\* c.mu.Lock() returns: no caller holds the lock (one at "rlock" waits for it)
Lock == \A c \in Callers : callers[c].pc \in {"idle", "rlock"}

\* LRUCache.Get up to the TTL check: c.cache.Get(key) moves a found key to
\* the recent end
ConcGetBegin(c, key) ==
    /\ strategy = "LRU"
    /\ callers[c].pc = "idle"
    /\ nops < MaxOps
    /\ LET i == PosOf(cache.items, key) IN
       IF i = 0
       THEN /\ cache' = cache
            /\ callers' = [callers EXCEPT ![c] =
                              [pc |-> "missLoad", key |-> key, entry |-> NoEntry, tmp |-> 0]]
       ELSE LET entry == cache.items[i].entry IN
            /\ cache' = [cache EXCEPT !.items = lruTouch(@, key)]
            /\ callers' = [callers EXCEPT ![c] =
                              [pc |-> IF now - entry.CreatedAt > cache.ttl
                                      THEN "remove" ELSE "accessLoad",
                               key |-> key, entry |-> entry, tmp |-> 0]]
    /\ nops' = nops + 1
    /\ UNCHANGED <<lastOp, completed>>
    /\ ConcFrame

\* c.cache.Remove(key) of an entry found older than TTL
ConcRemove(c) ==
    /\ callers[c].pc = "remove"
    /\ cache' = [cache EXCEPT !.items = lruRemove(@, callers[c].key)]
    /\ callers' = [callers EXCEPT ![c].pc = "sizeLoad"]
    /\ UNCHANGED <<nops, lastOp, completed>>
    /\ ConcFrame

\* the read of c.currentSize, c.stats.Misses, entry.AccessCount or c.stats.Hits
ConcLoad(c) ==
    /\ callers[c].pc \in {"sizeLoad", "missLoad", "accessLoad", "hitLoad"}
    /\ LET q == callers[c]
           i == PosOf(cache.items, q.key)
       IN callers' = [callers EXCEPT ![c] =
            CASE q.pc = "sizeLoad" -> [q EXCEPT !.pc = "sizeStore", !.tmp = cache.currentSize]
              [] q.pc = "missLoad" -> [q EXCEPT !.pc = "missStore", !.tmp = cache.stats.Misses]
              [] q.pc = "hitLoad" -> [q EXCEPT !.pc = "hitStore", !.tmp = cache.stats.Hits]
              [] q.pc = "accessLoad" ->
                    [q EXCEPT !.pc = "accessStore",
                              !.tmp = IF i # 0 THEN cache.items[i].entry.AccessCount
                                      ELSE q.entry.AccessCount]]
    /\ UNCHANGED <<cache, nops, lastOp, completed>>
    /\ ConcFrame

\* the write that ends c.currentSize -= entry.Size, c.stats.Misses++,
\* entry.AccessCount++ or c.stats.Hits++; after Misses++ and Hits++ Get returns
ConcStore(c) ==
    /\ callers[c].pc \in {"sizeStore", "missStore", "accessStore", "hitStore"}
    /\ LET q == callers[c]
           i == PosOf(cache.items, q.key)
       IN CASE q.pc = "sizeStore" ->
                 /\ cache' = [cache EXCEPT !.currentSize = q.tmp - q.entry.Size]
                 /\ callers' = [callers EXCEPT ![c].pc = "missLoad"]
                 /\ completed' = completed
            [] q.pc = "accessStore" ->
                 /\ cache' = IF i # 0
                             THEN [cache EXCEPT !.items[i].entry.AccessCount = q.tmp + 1]
                             ELSE cache
                 /\ callers' = [callers EXCEPT ![c].pc = "hitLoad"]
                 /\ completed' = completed
            [] q.pc = "missStore" ->
                 /\ cache' = [cache EXCEPT !.stats.Misses = q.tmp + 1]
                 /\ callers' = [callers EXCEPT ![c] = IdleCaller]
                 /\ completed' = Append(completed, q.key)
            [] q.pc = "hitStore" ->
                 /\ cache' = [cache EXCEPT !.stats.Hits = q.tmp + 1]
                 /\ callers' = [callers EXCEPT ![c] = IdleCaller]
                 /\ completed' = Append(completed, q.key)
    /\ UNCHANGED <<nops, lastOp>>
    /\ ConcFrame

\* LFUCache.Get, under c.mu.Lock
ConcGetLFU(key) ==
    /\ strategy = "LFU"
    /\ Lock
    /\ nops < MaxOps
    /\ cache' = LFUGet(cache, key, now).cache
    /\ completed' = Append(completed, key)
    /\ nops' = nops + 1
    /\ UNCHANGED <<lastOp, callers>>
    /\ ConcFrame

\* Stats: c.stats.Size = c.currentSize
ConcStatsBegin(c) ==
    /\ callers[c].pc = "idle"
    /\ nops < MaxOps
    /\ cache' = [cache EXCEPT !.stats.Size = cache.currentSize]
    /\ callers' = [callers EXCEPT ![c] = [pc |-> "statsCount"]]
    /\ nops' = nops + 1
    /\ UNCHANGED <<lastOp, completed>>
    /\ ConcFrame

\* Stats: c.stats.ItemCount = c.cache.Len() (len(c.items) in LFUCache)
ConcStatsCount(c) ==
    /\ callers[c].pc = "statsCount"
    /\ cache' = [cache EXCEPT !.stats.ItemCount = Len(cache.items)]
    /\ callers' = [callers EXCEPT ![c].pc = "statsReturn"]
    /\ UNCHANGED <<nops, lastOp, completed>>
    /\ ConcFrame

\* Stats: return c.stats
ConcStatsReturn(c) ==
    /\ callers[c].pc = "statsReturn"
    /\ lastOp' = [NoOp EXCEPT !.op = "Stats", !.entry = cache.stats]
    /\ callers' = [callers EXCEPT ![c] = IdleCaller]
    /\ UNCHANGED <<cache, nops, completed>>
    /\ ConcFrame

\* Set of an entry of size 1, under c.mu.Lock
ConcSet(key) ==
    /\ Lock
    /\ nops < MaxOps
    /\ cache' = CacheSet(strategy, cache, key,
                         [Data |-> <<1>>, Size |-> 1, CreatedAt |-> 0, AccessCount |-> 0], now)
    /\ nops' = nops + 1
    /\ UNCHANGED <<lastOp, callers, completed>>
    /\ ConcFrame

ConcDelete(key) ==
    /\ Lock
    /\ nops < MaxOps
    /\ cache' = CacheDelete(strategy, cache, key)
    /\ nops' = nops + 1
    /\ UNCHANGED <<lastOp, callers, completed>>
    /\ ConcFrame

ConcClear ==
    /\ Lock
    /\ nops < MaxOps
    /\ cache' = CacheClear(strategy, cache)
    /\ completed' = << >>
    /\ nops' = nops + 1
    /\ UNCHANGED <<lastOp, callers>>
    /\ ConcFrame

NextConc ==
    \/ \E c \in Callers, k \in Keys : ConcGetBegin(c, k)
    \/ \E c \in Callers : ConcRemove(c)
    \/ \E c \in Callers : ConcLoad(c)
    \/ \E c \in Callers : ConcStore(c)
    \/ \E k \in Keys : ConcGetLFU(k)
    \/ \E c \in Callers : ConcStatsBegin(c)
    \/ \E c \in Callers : ConcStatsCount(c)
    \/ \E c \in Callers : ConcStatsReturn(c)
    \/ \E k \in Keys : ConcSet(k)
    \/ \E k \in Keys : ConcDelete(k)
    \/ ConcClear
    \/ Tick /\ UNCHANGED <<indexVars, serverVars>>

SpecConc == Init /\ [][NextConc]_vars

\* the version index under a client
InitIdx == InitIndex /\ IdleCache /\ IdleServer

NextIdx ==
    \/ \E p \in LogicalPaths, c \in Contents :
          Register(p, c) /\ UNCHANGED <<cacheVars, serverVars>>
    \/ \E p \in LogicalPaths : Remove(p) /\ UNCHANGED <<cacheVars, serverVars>>

SpecIndex == InitIdx /\ [][NextIdx]_vars

(***************************************************************************)
(* The version index called by several goroutines.  RegisterAsset and      *)
(* RemoveAsset take avm.mu.Lock and write the three maps one after the      *)
(* other; the lookups take avm.mu.RLock.                                   *)
(***************************************************************************)
\* what the callers of the index leave alone
IndexFrame ==
    UNCHANGED <<strategy, cache, now, lastOp, lastSet, registered, cfg, disk, fver, req,
                events, invalidated, lastServe, lastAct, nreq, nwrites, call, tasks>>

\* the callers are interchangeable: the idle caller of the lowest number
\* makes the next call
NextCaller(c) ==
    /\ callers[c].pc = "idle"
    /\ \A q \in Callers : q < c => callers[q].pc # "idle"

\* a lookup that does not wait for the writer
RLock_NotHeld == TRUE

\* avm.mu.RLock() returns: no writer holds the lock
RLock == \A c \in Callers : callers[c].pc \in {"idle", "rlock"}

\* what the lookups return for a path: GetVersionedPath, GetOriginalPath of
\* that versioned path, GetContentHash
Observe(a, path) ==
    LET v == GetVersionedPath(a, path) IN
    [versioned |-> v, original |-> GetOriginalPath(a, v.path), hash |-> GetContentHash(a, path)]

\* the index after the calls ops made one after the other
RECURSIVE SeqIndex(_, _)
SeqIndex(a, ops) ==
    IF ops = << >> THEN a
    ELSE SeqIndex(IF Head(ops).op = "Register"
                  THEN RegisterAsset(a, Head(ops).path, Head(ops).content)
                  ELSE RemoveAsset(a, Head(ops).path),
                  Tail(ops))

\* the index as NewAssetVersionManager made it
FreshIndex == NewAssetVersionManager(avm.pattern, avm.hashLength, avm.urlPrefix)

\* RegisterAsset: avm.mu.Lock() and GenerateVersionedPath
RegisterBegin(c, path, content) ==
    /\ NextCaller(c)
    /\ Lock
    /\ nops < MaxOps
    /\ callers' = [callers EXCEPT ![c] =
                      [pc |-> "versionedPaths", op |-> "Register",
                       path |-> path, content |-> content]]
    /\ nops' = nops + 1
    /\ UNCHANGED <<avm, lastReg, completed>>
    /\ IndexFrame

\* RegisterAsset: the writes to versionedPaths, then to originalPaths, then
\* to contentHashes, and the deferred Unlock
RegisterStep(c) ==
    /\ callers[c].pc \in {"versionedPaths", "originalPaths", "contentHashes"}
    /\ callers[c].op = "Register"
    /\ LET q == callers[c]
           full == RegisterAsset(avm, q.path, q.content)
       IN CASE q.pc = "versionedPaths" ->
                 /\ avm' = [avm EXCEPT !.versionedPaths = full.versionedPaths]
                 /\ callers' = [callers EXCEPT ![c].pc = "originalPaths"]
                 /\ UNCHANGED <<lastReg, completed>>
            [] q.pc = "originalPaths" ->
                 /\ avm' = [avm EXCEPT !.originalPaths = full.originalPaths]
                 /\ callers' = [callers EXCEPT ![c].pc = "contentHashes"]
                 /\ UNCHANGED <<lastReg, completed>>
            [] q.pc = "contentHashes" ->
                 /\ avm' = [avm EXCEPT !.contentHashes = full.contentHashes]
                 /\ callers' = [callers EXCEPT ![c] = IdleCaller]
                 /\ lastReg' = [NoReg EXCEPT !.op = "Register", !.path = q.path,
                                             !.content = q.content]
                 /\ completed' = Append(completed, [op |-> "Register", path |-> q.path,
                                                    content |-> q.content])
    /\ UNCHANGED nops
    /\ IndexFrame

\* RemoveAsset: avm.mu.Lock()
RemoveBegin(c, path) ==
    /\ NextCaller(c)
    /\ Lock
    /\ nops < MaxOps
    /\ callers' = [callers EXCEPT ![c] =
                      [pc |-> "originalPaths", op |-> "Remove", path |-> path,
                       content |-> << >>]]
    /\ nops' = nops + 1
    /\ UNCHANGED <<avm, lastReg, completed>>
    /\ IndexFrame

\* RemoveAsset: the deletes from originalPaths, then from versionedPaths,
\* then from contentHashes, and the deferred Unlock
RemoveStep(c) ==
    /\ callers[c].pc \in {"versionedPaths", "originalPaths", "contentHashes"}
    /\ callers[c].op = "Remove"
    /\ LET q == callers[c] IN
       CASE q.pc = "originalPaths" ->
                 /\ avm' = IF q.path \in DOMAIN avm.versionedPaths
                           THEN [avm EXCEPT !.originalPaths =
                                              MapDelete(@, avm.versionedPaths[q.path])]
                           ELSE avm
                 /\ callers' = [callers EXCEPT ![c].pc = "versionedPaths"]
                 /\ UNCHANGED <<lastReg, completed>>
         [] q.pc = "versionedPaths" ->
                 /\ avm' = [avm EXCEPT !.versionedPaths = MapDelete(@, q.path)]
                 /\ callers' = [callers EXCEPT ![c].pc = "contentHashes"]
                 /\ UNCHANGED <<lastReg, completed>>
         [] q.pc = "contentHashes" ->
                 /\ avm' = [avm EXCEPT !.contentHashes = MapDelete(@, q.path)]
                 /\ callers' = [callers EXCEPT ![c] = IdleCaller]
                 /\ lastReg' = [NoReg EXCEPT !.op = "Remove", !.path = q.path]
                 /\ completed' = Append(completed, [op |-> "Remove", path |-> q.path,
                                                    content |-> << >>])
    /\ UNCHANGED nops
    /\ IndexFrame

\* a lookup of path is called and waits for avm.mu.RLock
LookupCall(c, path) ==
    /\ NextCaller(c)
    /\ nops < MaxOps
    /\ callers' = [callers EXCEPT ![c] = [pc |-> "rlock", op |-> "Lookup", path |-> path,
                                          content |-> << >>]]
    /\ nops' = nops + 1
    /\ UNCHANGED <<avm, lastReg, completed>>
    /\ IndexFrame

\* the lookup under avm.mu.RLock: what it sees, and what the index holds
\* for the path after the calls that returned so far
ConcLookup(c) ==
    /\ callers[c].pc = "rlock"
    /\ RLock
    /\ lastReg' = [op |-> "Lookup", path |-> callers[c].path, content |-> << >>,
                   prev |-> << >>,
                   seen |-> Observe(avm, callers[c].path),
                   inOrder |-> Observe(SeqIndex(FreshIndex, completed), callers[c].path)]
    /\ callers' = [callers EXCEPT ![c] = IdleCaller]
    /\ UNCHANGED <<avm, nops, completed>>
    /\ IndexFrame

NextIdxConc ==
    \/ \E c \in Callers, p \in LogicalPaths, d \in Contents : RegisterBegin(c, p, d)
    \/ \E c \in Callers : RegisterStep(c)
    \/ \E c \in Callers, p \in LogicalPaths : RemoveBegin(c, p)
    \/ \E c \in Callers : RemoveStep(c)
    \/ \E c \in Callers, p \in LogicalPaths : LookupCall(c, p)
    \/ \E c \in Callers : ConcLookup(c)

\* the index of DefaultConfig (default pattern, hash length 8), without and
\* with a URL prefix
InitIdxConc ==
    /\ \E up \in URLPrefixes : avm = NewAssetVersionManager(<<>>, DefaultVersionHashLength, up)
    /\ registered = [p \in LogicalPaths |-> NoEntry]
    /\ lastReg = NoReg
    /\ IdleCache /\ IdleServer

SpecIdxConc == InitIdxConc /\ [][NextIdxConc]_vars

(***************************************************************************)
(* Properties of the store (checked under Spec).                           *)
(***************************************************************************)
\* the (key, data, size) triples the store holds
Held(c) == {[key |-> c.items[i].key, Data |-> c.items[i].entry.Data,
             Size |-> c.items[i].entry.Size] : i \in 1..Len(c.items)}

\* C1: whenever a Set has returned, the sizes of the entries held in the
\* store sum to at most the configured byte budget (LRU and LFU).
C1_BudgetAfterSet ==
    lastOp.op = "Set" => HeldBytes(cache) <= cache.maxSize

\* C2: after every Set, Stats reports as size the sum of the sizes of the
\* entries held and as item count the number of entries held.
C2_StatsExact ==
    lastOp.op = "Set" =>
        /\ CacheStatsOf(strategy, cache).Size = HeldBytes(cache)
        /\ CacheStatsOf(strategy, cache).ItemCount = Cardinality(HeldKeys(cache))

\* C8: no Get returns an entry whose age (the time of the Get minus
\* created_at) exceeds TTL; an entry found past its TTL is a miss and is
\* removed from the store.
C8_NoExpiredHit ==
    lastOp.op = "Get" =>
        /\ lastOp.ok => lastOp.at - lastOp.entry.CreatedAt <= cache.ttl
        /\ lastOp.expired => ~lastOp.ok /\ lastOp.key \notin HeldKeys(cache)

\* a Get found an entry older than TTL
C8_Witness ==
    lastOp.op = "Get" /\ lastOp.expired /\ ~lastOp.ok

\* C9: a Set of an entry larger than the whole budget inserts nothing: the
\* store holds afterwards exactly what it held before, so the key is a miss
\* unless it was held before and the entries already held stay retrievable.
C9_OversizeRejected ==
    [][(lastOp'.op = "Set" /\ nops' = nops + 1 /\ lastOp'.entry.Size > cache.maxSize)
          => Held(cache') = Held(cache)]_vars

C6_RoundTrip ==
    \A p \in LogicalPaths :
        p \in DOMAIN avm.versionedPaths =>
            /\ GetOriginalPath(avm, GetVersionedPath(avm, p).path) = [path |-> p, exists |-> TRUE]
            /\ registered[p] # NoEntry
            /\ GetContentHash(avm, p) =
                 [hash |-> GenerateVersionedPath(avm, p, registered[p].Data).hash, exists |-> TRUE]

\* C7: re-registering p, registered before as v1, with bytes of a different
\* hash makes versioned(p) the new path and hash(p) the new hash and drops
\* the stale inverse: original(v1) is absent and v1 is not a versioned path.
C7_StaleInverseRemoved ==
    LET g == GenerateVersionedPath(avm, lastReg.path, lastReg.content) IN
    (lastReg.op = "Register" /\ lastReg.prev # <<>> /\ lastReg.prev # g.path) =>
        /\ GetVersionedPath(avm, lastReg.path) = [path |-> g.path, exists |-> TRUE]
        /\ GetContentHash(avm, lastReg.path) = [hash |-> g.hash, exists |-> TRUE]
        /\ ~GetOriginalPath(avm, lastReg.prev).exists
        /\ ~IsVersionedPath(avm, lastReg.prev)

(***************************************************************************)
(* Properties of the server (checked under SpecServer).                    *)
(***************************************************************************)
\* the logical path of the file at fullPath
LogicalOf(fullPath) == <<"/">> \o Rel(Root, fullPath).path

\* C3: no store lookup made after an invalidation of a file has completed
\* returns an entry whose bytes were read from disk before the file change
\* that invalidation was for, however requests and the invalidation
\* interleave: the first request for the key after it is a miss.
C3_NoStaleHitAfterInvalidation ==
    (lastServe.status = 200 /\ lastServe.fromCache) => lastServe.ver >= lastServe.inval

\* C4: when the watcher has processed an event for a file, the store holds
\* no entry derived from that file, under any encoding and either flavor.
C4_WatcherRemovesEveryEntry ==
    lastAct.act = "watch" =>
        \A i \in 1..Len(cache.items) : cache.items[i].entry.file # lastAct.file

\* C5: when the watcher has processed a change event for a versionable file
\* p, the version record of p is that of the bytes on disk (none if the file
\* is gone), and a request for the current versioned URL made once every
\* change has been processed is answered with the bytes on disk.
C5_VersionRecordCurrent ==
    /\ (/\ lastAct.act = "watch"
        /\ cfg.EnableVersioning
        /\ shouldVersionFile(LogicalOf(lastAct.file))) =>
          LET p == LogicalOf(lastAct.file) IN
          IF disk[lastAct.file] = Absent
          THEN ~GetVersionedPath(avm, p).exists /\ ~GetContentHash(avm, p).exists
          ELSE LET g == GenerateVersionedPath(avm, p, disk[lastAct.file]) IN
               /\ GetVersionedPath(avm, p) = [path |-> g.path, exists |-> TRUE]
               /\ GetContentHash(avm, p) = [hash |-> g.hash, exists |-> TRUE]
    /\ (/\ lastServe.status = 200
        /\ cfg.EnableVersioning
        /\ cfg.EnableWatcher
        /\ lastServe.isVersioned
        /\ lastServe.settled
        /\ fver[lastServe.file] > 0
        /\ GetVersionedPath(avm, LogicalOf(lastServe.file)) =
             [path |-> lastServe.urlPath, exists |-> TRUE]) =>
          Decode(lastServe.body) = disk[lastServe.file]

\* C15: with the manual invalidator, after InvalidatePath(p) the store holds
\* no entry for p under any encoding and either flavor; after InvalidateAll
\* the store is empty.
C15_ManualInvalidation ==
    /\ lastAct.act = "invalidate" =>
          \A i \in 1..Len(cache.items) : cache.items[i].entry.file # lastAct.file
    /\ lastAct.act = "invalidateAll" => HeldKeys(cache) = {}

(***************************************************************************)
(* Properties of the pure steps (checked under SpecPure).                  *)
(***************************************************************************)
\* C11: a response carries Cache-Control "public, max-age=31536000,
\* immutable" if and only if the request arrived on a versioned path, for
\* every file name, on the hit path as well as on the miss path.
C11_ImmutableIffVersioned ==
    call.fn = "getCacheControl" =>
        ((call.out = [maxAge |-> 31536000, directive |-> "immutable"]) <=> call.isVersioned)

\* C17: brotli is chosen if and only if brotli is enabled and "br" appears
\* in Accept-Encoding; otherwise gzip if and only if gzip is enabled and
\* "gzip" or "*" appears; otherwise identity.  With both enabled "br, gzip"
\* gives brotli, "gzip, deflate" gzip, "deflate" identity and "*" gzip.
C17_EncodingSelection ==
    call.fn = "GetCompressor" =>
        LET lower == [i \in 1..Len(call.acceptEncoding) |->
                         LowerToken(call.acceptEncoding[i])]
            wantBr == "br" \in call.compression /\ Contains(lower, "br")
            wantGzip == /\ ~wantBr
                        /\ "gzip" \in call.compression
                        /\ (Contains(lower, "gzip") \/ Contains(lower, "*"))
        IN /\ call.out = "br" <=> wantBr
           /\ call.out = "gzip" <=> wantGzip
           /\ call.out = "none" <=> (~wantBr /\ ~wantGzip)
           /\ call.compression = {"gzip", "br"} =>
                /\ call.acceptEncoding = <<"br", ", ", "gzip">> => call.out = "br"
                /\ call.acceptEncoding = <<"gzip", ", ", "deflate">> => call.out = "gzip"
                /\ call.acceptEncoding = <<"deflate">> => call.out = "none"
                /\ call.acceptEncoding = <<"*">> => call.out = "gzip"

\* "br, gzip" with both encoders enabled selects brotli
C17_Witness ==
    /\ call.fn = "GetCompressor"
    /\ call.compression = {"gzip", "br"}
    /\ call.acceptEncoding = <<"br", ", ", "gzip">>
    /\ call.out = "br"

\* C18: the rewriter replaces with its versioned path every href= or src=
\* attribute value whose URL ends with a versionable extension and is a key
\* of the version index, and leaves every URL that is not a key unchanged.
C18_RewritesIndexedAssets ==
    (call.fn = "ProcessHTML" /\ call.enabled) =>
        \A i \in 1..Len(call.content) : \A j \in 1..Len(call.content[i]) :
            LET attr == call.content[i][j]
                res == call.out[i][j]
                v == GetVersionedPath(call.index, attr.url)
            IN /\ (attr.name \in {"href", "src"} /\ attr.quote = "dq"
                   /\ Ext(attr.url) \in VersionableExts /\ v.exists)
                      => res.url = v.path
               /\ ~v.exists => res.url = attr.url

\* C19: applying the rewriter twice gives the same output as applying it
\* once, for every document and every state of the version index.
C19_RewriteIdempotent ==
    call.fn = "ProcessHTML" => call.again = call.out

(***************************************************************************)
(* Properties of the server and one client (checked under SpecPages).      *)
(***************************************************************************)
\* the last response answers the same URL and Accept-Encoding as the 200
\* response the client received just before it
Revalidates(resp) ==
    /\ resp.status \in {200, 304}
    /\ resp.prev.status = 200
    /\ resp.prev.urlPath = resp.urlPath
    /\ resp.prev.acceptEncoding = resp.acceptEncoding

\* C12: when the HTML rewriter runs, the ETag sent in the response header
\* and compared against If-None-Match is the ETag of the rewritten bytes, on
\* the miss path as well as on the hit path.
C12_ETagOfRewrittenBytes ==
    (/\ lastServe.status \in {200, 304}
     /\ cfg.EnableVersioning
     /\ IsHTML(ContentType(Ext(lastServe.file))))
        => LET rewritten == generateETag(ProcessHTMLBytes(avm, TRUE, disk[lastServe.file]))
           IN /\ lastServe.etag = rewritten
              /\ lastServe.status = 304 <=> lastServe.ifNoneMatch = rewritten

\* C13: for an unchanged file, a GET with If-None-Match equal to the ETag
\* header of an earlier 200 response for the same URL and Accept-Encoding is
\* answered 304 with an empty body, from the store or from disk, whatever
\* the content type; a non-matching If-None-Match is answered 200 with the body.
C13_ConditionalRevalidation ==
    Revalidates(lastServe) =>
        /\ lastServe.ifNoneMatch = lastServe.prev.etag
              => (lastServe.status = 304 /\ lastServe.body = <<>>)
        /\ lastServe.ifNoneMatch = OtherTag
              => (lastServe.status = 200 /\ lastServe.body = lastServe.prev.body)

\* C14: for an unchanged file and identical request headers, the response
\* served from the store has the same status, body, ETag, Content-Encoding
\* and Cache-Control as the miss response that populated the entry, and the
\* store's hit counter has increased.
C14_HitEqualsMiss ==
    (/\ Revalidates(lastServe)
     /\ lastServe.fromCache /\ ~lastServe.prev.fromCache
     /\ lastServe.ifNoneMatch = lastServe.prev.ifNoneMatch)
        => /\ lastServe.status = lastServe.prev.status
           /\ lastServe.body = lastServe.prev.body
           /\ lastServe.etag = lastServe.prev.etag
           /\ lastServe.contentEncoding = lastServe.prev.contentEncoding
           /\ lastServe.cacheControl = lastServe.prev.cacheControl
           /\ lastServe.hits > lastServe.prev.hits

\* C16: a request rejected in the validate step (a method other than GET,
\* HEAD or OPTIONS, a body larger than the maximum, a path with a NUL byte,
\* a traversal token or more than 2048 characters) is answered with an error
\* response and causes no store lookup or insertion, no file stat or read
\* and no version-index change.
C16_RejectedTouchesNothing ==
    [][("rejected" \in DOMAIN lastServe' /\ nreq' = nreq + 1)
          => /\ \/ lastServe'.method \notin {"GET", "HEAD", "OPTIONS"}
                \/ lastServe'.contentLength > MaxBodySize
                \/ ~isValidPath(lastServe'.urlPath)
             /\ lastServe'.status \in {403, 405, 413}
             /\ cache' = cache
             /\ avm' = avm
             /\ disk' = disk
             /\ req' = req]_vars

\* a path with a traversal token is answered 403 while the store holds an entry
C16_Witness ==
    /\ "rejected" \in DOMAIN lastServe
    /\ lastServe.status = 403
    /\ lastServe.urlPath = <<"/", "../", "etc">>
    /\ cache.items # <<>>

(***************************************************************************)
(* Properties of the server's lifetime (checked under SpecLife).           *)
(***************************************************************************)
\* C20: when Stop has returned, the watcher task has terminated and no
\* long-lived background task of the server (file watcher, TTL sweeper)
\* keeps running.
C20_NoTaskAfterStop ==
    tasks.server = "stopped" =>
        /\ tasks.watcher \in {"none", "done"}
        /\ tasks.sweeper \in {"none", "done"}

(***************************************************************************)
(* Properties of RetryOperation (checked under SpecPure).                  *)
(***************************************************************************)
\* an error of a transient kind: of kind timeout, or the timeout error or a
\* transient I/O error itself
TransientKind(err) ==
    \/ err.kind = "Timeout"
    \/ err.kind = "plain" /\ err.cause \in {"ErrTimeout", "temporary"}

\* an error that is not transient in its kind nor in its cause
NotTransient(err) ==
    \/ err.kind \in {"Validation", "Permission", "Security"}
    \/ err.kind # "Timeout" /\ err.cause \notin {"ErrTimeout", "temporary"}

\* C21: a failed operation is retried if and only if its error is of a
\* transient kind; an operation that fails with a permission, validation or
\* security error is attempted exactly once and that error is returned
\* immediately, with no backoff sleep.
C21_RetryOnlyTransient ==
    (call.fn = "RetryOperation" /\ call.n >= 1 /\ call.maxRetries >= 1) =>
        /\ TransientKind(call.err) => call.out.attempts > 1
        /\ NotTransient(call.err) => call.out.attempts = 1
        /\ call.err.kind \in {"Validation", "Permission", "Security"} =>
              /\ call.out.attempts = 1
              /\ call.out.err = call.err
              /\ call.out.sleeps = <<>>

C23_HashLengthValidated ==
    call.fn = "New" =>
        IF call.length < 4 \/ call.length > 16 \/ call.length % 2 # 0
        THEN call.out.err # "nil"
        ELSE call.out.err = "nil" /\ call.out.hashLength = call.length

\* ---- Properties of eviction (checked under Spec) ----

\* the keys of a list of items, in the list's order
KeysOf(items) == [i \in 1..Len(items) |-> items[i].key]

\* C24: in the LRU store a Set of a new key evicts the least recently used
\* entries first (a Get counts as a use) and stops as soon as the new entry
\* fits: the entries kept are the most recently used ones in their order, the
\* last entry evicted was needed, and nothing is evicted when the held bytes
\* plus the new size are within the budget.
C24_LRUEvictsUntilFits ==
    [][(/\ strategy = "LRU"
        /\ lastOp'.op = "Set" /\ nops' = nops + 1
        /\ lastOp'.key \notin HeldKeys(cache))
          => LET old == cache.items
                 kept == SelectSeq(cache'.items, LAMBDA it : it.key # lastOp'.key)
                 n == Len(old) - Len(kept)
                 size == lastOp'.entry.Size
             IN  /\ n >= 0
                 /\ KeysOf(kept) = KeysOf(SubSeq(old, n + 1, Len(old)))
                 /\ n > 0 => SumSizes(SubSeq(old, n, Len(old))) + size > cache.maxSize
                 /\ HeldBytes(cache) + size <= cache.maxSize => n = 0]_vars

\* position of x in the sequence s, 0 if absent
IndexIn(s, x) ==
    IF \E i \in 1..Len(s) : s[i] = x THEN CHOOSE i \in 1..Len(s) : s[i] = x ELSE 0

\* C25: in the LFU store a Set of a new key that needs room evicts, at each
\* step, an entry of minimum access frequency, and among entries of that
\* frequency the earliest-inserted one: every evicted entry comes before
\* every kept entry in the order by frequency, then by insertion.
C25_LFUEvictsMinFreqOldest ==
    [][(/\ strategy = "LFU"
        /\ lastOp'.op = "Set" /\ nops' = nops + 1
        /\ lastOp'.key \notin HeldKeys(cache))
          => LET old == cache.items
                 evicted == HeldKeys(cache) \ HeldKeys(cache')
                 kept == HeldKeys(cache) \cap HeldKeys(cache')
                 freq(k) == old[PosOf(old, k)].freq
                 pos(k) == IndexIn(lastOp.order, k)
             IN  \A e \in evicted, k \in kept :
                    \/ freq(e) < freq(k)
                    \/ freq(e) = freq(k) /\ pos(e) < pos(k)]_vars

\* ---- Properties of versioned URLs (checked under SpecServer) ----

\* the contents whose hash the versioned URL u carries
HashedContents(u) ==
    {c \in Contents :
        \E p \in FilePaths :
            /\ shouldVersionFile(p)
            /\ GenerateVersionedPath(NewAssetVersionManager(<<>>, 8, ""), p, c).path = u}

\* the file a versioned URL u names
HashedFile(u) ==
    CHOOSE f \in FullPaths :
        \E p \in FilePaths, c \in Contents :
            /\ f = securePath(Root, p)
            /\ GenerateVersionedPath(NewAssetVersionManager(<<>>, 8, ""), p, c).path = u

\* C26: with versioning on, a 200 on a versioned URL serves bytes whose hash
\* is the one in the URL, and a versioned URL whose hash is not that of the
\* file's current bytes (the file changed, or the hash was never
\* registered) is not answered 200 when no change of the file happened
\* while the request was served.
C26_VersionedURLServesItsHash ==
    (/\ cfg.EnableVersioning
     /\ lastServe.status = 200
     /\ lastServe.urlPath \in URLs \ FilePaths)
        => /\ \E c \in HashedContents(lastServe.urlPath) :
                  lastServe.etag = generateETag(c)
           /\ lastServe.settled
                => disk[HashedFile(lastServe.urlPath)] \in HashedContents(lastServe.urlPath)

\* ---- Properties of the insert step (checked under SpecPages) ----

\* the key of the lookup of a request: the URL, the encoding negotiated from
\* its Accept-Encoding, the flavor
LookupKey(resp) ==
    CacheKey(resp.urlPath, GetCompressor(DefaultCompression, resp.acceptEncoding),
             resp.isVersioned)

\* C27: after a miss answered 200 the store holds the served body under the
\* key with the encoding negotiated for the request, also when the body was
\* left unencoded, and the same request repeated at once for the unchanged
\* file is answered from the store.
C27_StoredUnderNegotiatedKey ==
    /\ (lastServe.status = 200 /\ ~lastServe.fromCache)
          => /\ LookupKey(lastServe) \in HeldKeys(cache)
             /\ HeldEntry(cache, LookupKey(lastServe)).Data = lastServe.body
    /\ (/\ Revalidates(lastServe)
        /\ ~lastServe.prev.fromCache
        /\ lastServe.ifNoneMatch = lastServe.prev.ifNoneMatch)
          => lastServe.fromCache

\* C28: on a miss the entry is inserted before the conditional check, so a
\* miss answered 304 leaves an entry for the request's URL and flavor in the
\* store, under the negotiated encoding or under the identity encoding.
C28_MissStoredBefore304 ==
    (lastServe.status = 304 /\ ~lastServe.fromCache)
        => \/ LookupKey(lastServe) \in HeldKeys(cache)
           \/ CacheKey(lastServe.urlPath, "none", lastServe.isVersioned) \in HeldKeys(cache)

\* ---- Properties of the store under concurrent callers (checked under
\* SpecConc, where every entry has size 1 and nothing is evicted) ----

\* C29: with Gets running next to each other and to Set, Delete and Stats,
\* no update of the bookkeeping is lost or made twice: once every call has
\* returned, hits + misses is the number of Gets completed since the last
\* Clear and the size counter is the sum of the held sizes; and a record
\* returned by Stats is a snapshot: its size is that of its item count.
C29_ConcurrentBookkeeping ==
    /\ callers = NoCallers
          => /\ cache.stats.Hits + cache.stats.Misses = Len(completed)
             /\ cache.currentSize = HeldBytes(cache)
    /\ lastOp.op = "Stats" => lastOp.entry.Size = lastOp.entry.ItemCount

\* ---- Properties of the index under concurrent callers (checked under
\* SpecIdxConc) ----

\* C30: register and remove are atomic for the lookups: a lookup sees for
\* its path the record of the index as the calls that returned before it
\* leave it, never one with only some of the three maps written; once all
\* calls returned the index is the one the calls give one after the other
\* in the order of their return; and registering again the path and bytes
\* just registered changes nothing.
C30_RegisterAtomic ==
    /\ lastReg.op = "Lookup" => lastReg.seen = lastReg.inOrder
    /\ callers = NoCallers => avm = SeqIndex(FreshIndex, completed)
    /\ (callers = NoCallers /\ lastReg.op = "Register")
          => RegisterAsset(avm, lastReg.path, lastReg.content) = avm

\* a lookup after two calls returned that sees a registered record
C30_Witness ==
    /\ lastReg.op = "Lookup"
    /\ lastReg.seen.versioned.exists
    /\ Len(completed) >= 2

(***************************************************************************)
(* C31: with no lookups at all, an entry older than TTL is removed by the  *)
(* sweeper at most one sweep interval (TTL/2) after it expired, and a pass *)
(* of the sweeper removes exactly the entries older than TTL and subtracts *)
(* their sizes from the store's size.                                      *)
(***************************************************************************)
C31_SweptWithinInterval ==
    [][/\ \A k \in HeldKeys(cache') :
             now' - HeldEntry(cache', k).CreatedAt <= cache'.ttl + cache'.ttl \div 2
       /\ (lastOp'.op = "Sweep" /\ lastOp'.at = now' /\ now' # now) =>
             /\ HeldKeys(cache') = {k \in HeldKeys(cache) : ~Expired(cache, k, now')}
             /\ cache'.currentSize =
                   cache.currentSize - (HeldBytes(cache) - HeldBytes(cache'))]_vars

\* the sweeper just removed an expired entry that no lookup had touched and
\* kept a younger one
C31_Witness ==
    /\ lastOp.op = "Sweep" /\ lastOp.ok /\ lastOp.at = now
    /\ nops >= 2
    /\ Len(cache.items) = 1

(***************************************************************************)
(* C32: the store's contents cannot be changed through the references      *)
(* handed across its interface: after the caller wrote to the entry it got *)
(* from Get or passed to Set, a Get of that key that finds the entry       *)
(* returns the data the store held before the write.                       *)
(***************************************************************************)
C32_NoMutableAlias ==
    [][(/\ lastOp.op = "Mutate"
        /\ lastOp'.op = "Get" /\ lastOp'.key = lastOp.key /\ lastOp'.ok)
          => lastOp'.entry.Data = lastOp.entry.Data]_vars

(***************************************************************************)
(* C33: invalidating the path of an index file also removes the entry      *)
(* cached for the directory URL served from it: a request for the          *)
(* directory URL made after the index file changed and its path was        *)
(* invalidated is not answered from an entry read before that change.      *)
(***************************************************************************)
C33_DirectoryEntryInvalidated ==
    (lastServe.status = 200 /\ lastServe.urlPath \in DirURLs) =>
        /\ lastServe.ver >= lastServe.inval
        /\ (lastServe.inval = fver[lastServe.file] => Decode(lastServe.body) = disk[lastServe.file])

(***************************************************************************)
(* C34: a response with a body carries Content-Encoding gzip (br) if and   *)
(* only if the body is gzip- (brotli-) encoded, on the hit path and on the *)
(* miss path, and every entry stored under a non-identity key holds bytes  *)
(* of that key's encoding.                                                 *)
(***************************************************************************)
\* the bytes open with the magic number of the encoding
EncodedWith(body, enc) == body # <<>> /\ Head(body) = Magic[enc]

C35_ScanSkipsUnreadable ==
    call.fn = "NewScan" =>
        /\ ~call.err
        /\ \A f \in DOMAIN call.disk :
              LET p == <<"/">> \o Rel(Root, f).path IN
              (shouldVersionFile(p) /\ call.disk[f] \notin {Absent, Unreadable}) <=>
                  GetVersionedPath(call.avm, p).exists

(***************************************************************************)
(* C36: a file of exactly MaxFileSize bytes (or fewer) is served with its  *)
(* bytes; a file one byte larger (or more) is rejected with the            *)
(* file-too-large error, and the store holds no entry for such a file.     *)
(***************************************************************************)
C36_FileSizeBoundary ==
    /\ lastServe.status # 0 =>
          LET n == Len(disk[securePath(Root, lastServe.urlPath)]) IN
          /\ n <= MaxFileSizeOf(cfg) =>
                /\ lastServe.status = 200
                /\ Decode(lastServe.body) = disk[securePath(Root, lastServe.urlPath)]
          /\ n > MaxFileSizeOf(cfg) =>
                lastServe.status = 400 /\ lastServe.err = "ErrFileTooLarge"
    /\ \A i \in 1..Len(cache.items) :
          Len(disk[cache.items[i].entry.file]) <= MaxFileSizeOf(cfg)

\* a file of exactly MaxFileSize bytes was served right after a file of one
\* byte more was rejected
C36_Witness ==
    /\ lastServe.status = 200
    /\ Len(disk[securePath(Root, lastServe.urlPath)]) = MaxFileSizeOf(cfg)
    /\ lastServe.prev.status = 400
    /\ Len(disk[securePath(Root, lastServe.prev.urlPath)]) = MaxFileSizeOf(cfg) + 1
    /\ Len(cache.items) = 1

(***************************************************************************)
(* C37: a request whose handler has not written a response when the        *)
(* request deadline expires is answered with status 408.                   *)
(***************************************************************************)
C37_TimeoutAnswered408 ==
    (/\ lastServe.status # 0
     /\ "via" \in DOMAIN lastServe
     /\ lastServe.via = "timeout"
     /\ ~lastServe.handlerWrote) => lastServe.status = 408

\* bytes of the entries held under the keys ks
RECURSIVE BytesOf(_, _)
BytesOf(c, ks) ==
    IF ks = {} THEN 0
    ELSE LET k == CHOOSE x \in ks : TRUE IN HeldEntry(c, k).Size + BytesOf(c, ks \ {k})

(***************************************************************************)
(* C38: an entry leaves the store only through byte-budget eviction, TTL   *)
(* expiry, Delete, Clear or replacement by a Set on its key, never because *)
(* of the number of entries held, and the size counter changes by exactly  *)
(* the bytes that left and came.                                           *)
(***************************************************************************)
C38_NoCountEviction ==
    [][LET gone == HeldKeys(cache) \ HeldKeys(cache') IN
       /\ gone # {} =>
             \/ lastOp'.op = "Delete" /\ gone = {lastOp'.key}
             \/ lastOp'.op \in {"Clear", "Sweep"}
             \/ lastOp'.op = "Get" /\ lastOp'.expired /\ gone = {lastOp'.key}
             \/ lastOp'.op = "Set" /\ cache.currentSize + lastOp'.entry.Size > cache.maxSize
       /\ gone # {} =>
             LET came == HeldKeys(cache') \ HeldKeys(cache)
                 both == {k \in HeldKeys(cache) \cap HeldKeys(cache') :
                             HeldEntry(cache, k) # HeldEntry(cache', k)}
             IN  cache'.currentSize - cache.currentSize =
                    BytesOf(cache', came \cup both) - BytesOf(cache, gone \cup both)]_vars

(***************************************************************************)
(* C39: Stop of the server and Stop of the invalidator, called more than   *)
(* once or without a prior Start, return without panicking, and after a    *)
(* Stop of the server the server is stopped.                               *)
(***************************************************************************)
C39_StopIdempotent ==
    /\ lastAct # Panicked
    /\ lastAct.act = "stop" => tasks.server = "stopped"

(***************************************************************************)
(* C40: the bytes of a slice returned by Compress stay the encoding of the *)
(* data it was called with, whatever later or concurrent Compress calls do *)
(* with the pooled buffers and writers; calls on the same data therefore   *)
(* return the same bytes.                                                  *)
(***************************************************************************)
C40_ResultOwnedByCaller ==
    call.fn = "Compress" =>
        /\ \A i \in 1..Len(completed) :
              SliceBytes(completed[i].result, call.buffers)
                 = Compress(call.enc, completed[i].data)
        /\ \A c \in Callers :
              callers[c].pc = "copied" =>
                 SliceBytes(callers[c].result, call.buffers)
                    = Compress(call.enc, callers[c].data)

\* a buffer of the pool was used for a second call, on other data, after the
\* result of the first call was returned, while the other caller is in a call
C40_Witness ==
    /\ call.fn = "Compress"
    /\ \E i, j \in 1..Len(completed) :
          /\ i < j
          /\ completed[i].buf = completed[j].buf
          /\ completed[i].data # completed[j].data
    /\ \E c \in Callers : callers[c].pc = "written"

====
